---- MODULE Spec2Model ----
(***************************************************************************)
(* Encrypted data store of ai-nexus (services/secureStorage): the session  *)
(* state (masterCryptoKey, masterPasswordForMigration), the two persisted  *)
(* namespaces (localStorage, IndexedDB appDataStore) and the handlers      *)
(* hasMasterPassword, setMasterPassword, verifyMasterPassword, saveData    *)
(* and loadData.                                                           *)
(*                                                                         *)
(* Strings are sequences of UTF-16 code units (the values charCodeAt       *)
(* returns).  All strings of the model are ASCII, for which the legacy     *)
(* cipher's UTF-8 conversion is byte for byte.  AES-GCM and PBKDF2 are the *)
(* platform's (Web Crypto); they are modelled ideally: a derived key is    *)
(* the pair (password, salt), and a GCM blob opens under exactly the key   *)
(* that made it.  base64 is a bijection and a stored string is represented *)
(* by the bytes it encodes.                                                *)
(***************************************************************************)
EXTENDS Integers, Sequences, FiniteSets, TLC

\* ------------------------------------------------------------- bounds
MaxSalts == 1    \* salts generated in one behaviour

\* ------------------------------------------------------------ strings
\* 'password_is_correct'
Sentinel ==
  <<112, 97, 115, 115, 119, 111, 114, 100, 95, 105, 115, 95, 99, 111, 114,
    114, 101, 99, 116>>

\* The passphrases the user may type: "pw1", "pw1pw1" (which repeats "pw1")
\* and "wrong".
Pw1 == <<112, 119, 49>>
Pw1Pw1 == <<112, 119, 49, 112, 119, 49>>
Wrong == <<119, 114, 111, 110, 103>>
Passphrases == {Pw1, Pw1Pw1, Wrong}
\* The IV of a blob decides no call's outcome: one value stands for all.
Nonces == {1}

\* The outcome of an expression that may raise.
Thrown == [ok |-> FALSE]
Returned(v) == [ok |-> TRUE, val |-> v]

\* ---------------------------------------------------------- JSON values
JNull == [t |-> "null"]
Undef == [t |-> "undef"]
JStr(s) == [t |-> "str", s |-> s]
JArr(a) == [t |-> "arr", a |-> a]
JObj(o) == [t |-> "obj", o |-> o]
JNum(n) == [t |-> "num", n |-> n]
JBool(b) == [t |-> "bool", b |-> b]
\* the template string `Chat with ${name}`
ChatWith(name) == [t |-> "str", cat |-> <<"Chat with ", name>>]

\* JavaScript truthiness of a value of the model.
Truthy(v) ==
  /\ v.t \notin {"null", "undef", "none"}
  /\ v # JStr("") /\ v # JNum(0) /\ v # JBool(FALSE)

\* typeof v === 'object'
TypeofObject(v) == v.t \in {"obj", "arr", "null"}

\* v.k for a property k: undefined when v has no such own property.
Get(v, k) == IF v.t = "obj" /\ k \in DOMAIN v.o THEN v.o[k] ELSE Undef

\* The documents of the model, each with the text JSON.stringify gives it:
\*  1  {"characters":[{"id":"c1"}]}
\*  2  {"characters":[{"id":"c2","name":"Bo"}],
\*      "chatSessions":[{"id":"s1","characterId":"c2"}]}
\*  3  {"characters":"x","chatSessions":[{},null,{"id":"s1"}]}
\*  4  null
DocTable ==
  << [json |-> JObj([characters |-> JArr(<< JObj([id |-> JStr("c1")]) >>)]),
      text |-> <<123, 34, 99, 104, 97, 114, 97, 99, 116, 101, 114, 115, 34,
                 58, 91, 123, 34, 105, 100, 34, 58, 34, 99, 49, 34, 125, 93,
                 125>>],
     [json |-> JObj([characters |->
                       JArr(<< JObj([id |-> JStr("c2"), name |-> JStr("Bo")]) >>),
                     chatSessions |->
                       JArr(<< JObj([id |-> JStr("s1"),
                                     characterId |-> JStr("c2")]) >>)]),
      text |-> <<123, 34, 99, 104, 97, 114, 97, 99, 116, 101, 114, 115, 34,
                 58, 91, 123, 34, 105, 100, 34, 58, 34, 99, 50, 34, 44, 34,
                 110, 97, 109, 101, 34, 58, 34, 66, 111, 34, 125, 93, 44, 34,
                 99, 104, 97, 116, 83, 101, 115, 115, 105, 111, 110, 115, 34,
                 58, 91, 123, 34, 105, 100, 34, 58, 34, 115, 49, 34, 44, 34,
                 99, 104, 97, 114, 97, 99, 116, 101, 114, 73, 100, 34, 58,
                 34, 99, 50, 34, 125, 93, 125>>],
     [json |-> JObj([characters |-> JStr("x"),
                     chatSessions |->
                       JArr(<< JObj(<<>>), JNull, JObj([id |-> JStr("s1")]) >>)]),
      text |-> <<123, 34, 99, 104, 97, 114, 97, 99, 116, 101, 114, 115, 34,
                 58, 34, 120, 34, 44, 34, 99, 104, 97, 116, 83, 101, 115,
                 115, 105, 111, 110, 115, 34, 58, 91, 123, 125, 44, 110, 117,
                 108, 108, 44, 123, 34, 105, 100, 34, 58, 34, 115, 49, 34,
                 125, 93, 125>>],
     [json |-> JNull, text |-> <<110, 117, 108, 108>>] >>

\* The values saveData may be given: a document, and a value that is no
\* object (what the shape check of loadData is there for).
Docs == {DocTable[1].json, JNull}

\* JSON.stringify on the documents of the model.
JSONstringify(v) ==
  DocTable[CHOOSE i \in 1..Len(DocTable) : DocTable[i].json = v].text

\* JSON.parse: the document whose text s is; any other string of the model
\* (a text garbled by a wrong XOR key) is no JSON and raises SyntaxError.
JSONparse(s) ==
  IF \E i \in 1..Len(DocTable) : DocTable[i].text = s
  THEN Returned(DocTable[CHOOSE i \in 1..Len(DocTable) : DocTable[i].text = s].json)
  ELSE Thrown

\* ------------------------------------------------------ crypto helpers
NoKey == [p |-> <<>>, s |-> 0]          \* masterCryptoKey === null
NoPass == <<>>                          \* masterPasswordForMigration === null

\* Mutant: the key is derived from the salt alone.
deriveKey_IgnoresPassword(password, salt) == [p |-> <<0>>, s |-> salt]

\* PBKDF2(password, salt): distinct inputs give distinct keys.
deriveKey(password, salt) == [p |-> password, s |-> salt]

Absent == [t |-> "none"]                \* undefined / null: no value stored
Junk == [t |-> "junk"]                  \* a stored string that is no base64
SaltVal(n) == [t |-> "salt", n |-> n]
XorBlob(bytes) == [t |-> "xor", bytes |-> bytes]

\* encryptData: base64(iv || AES-GCM(key, iv, data)).
encryptData(data, key, iv) == [t |-> "gcm", k |-> key, iv |-> iv, pt |-> data]

\* decryptData: the plaintext when the tag verifies (the blob was made under
\* this key), OperationError otherwise; atob raises on a non-base64 string.
decryptData(blob, key) ==
  IF blob.t = "gcm" /\ blob.k = key THEN Returned(blob.pt) ELSE Thrown

RECURSIVE XorCode(_, _)
\* a ^ b on char codes
XorCode(a, b) ==
  IF a = 0 THEN b
  ELSE IF b = 0 THEN a
  ELSE (((a % 2) + (b % 2)) % 2) + 2 * XorCode(a \div 2, b \div 2)

\* Mutant: the key index does not wrap around.
legacySimpleXOR_NoWrap(data, key) ==
  [i \in 1..Len(data) |->
     XorCode(data[i], key[IF i <= Len(key) THEN i ELSE Len(key)])]

legacySimpleXOR(data, key) ==
  [i \in 1..Len(data) |-> XorCode(data[i], key[((i - 1) % Len(key)) + 1])]

\* legacyDecrypt: raises on an empty key; atob raises on a non-base64 string;
\* on an AES-GCM blob (random bytes) the UTF-8 decoding raises URIError.
legacyDecrypt(encryptedData, masterKey) ==
  IF masterKey = NoPass THEN Thrown
  ELSE IF encryptedData.t = "xor"
       THEN Returned(legacySimpleXOR(encryptedData.bytes, masterKey))
       ELSE Thrown

\* The blob the application's earlier releases wrote for a text.
legacyEncrypt(data, masterKey) ==
  XorBlob([i \in 1..Len(data) |->
             XorCode(data[i], masterKey[((i - 1) % Len(masterKey)) + 1])])

\* -------------------------------------------------- data validation
\* (Array.isArray(v) ? v : []).filter(c => c && typeof c === 'object')
ArrayOrEmpty(v) == IF v.t = "arr" THEN v.a ELSE <<>>
\* Mutant: the empty object is filtered out as well.
FilterObjects_DropsEmpty(a) ==
  SelectSeq(a, LAMBDA c : Truthy(c) /\ TypeofObject(c) /\ c # JObj(<<>>))

FilterObjects(a) == SelectSeq(a, LAMBDA c : Truthy(c) /\ TypeofObject(c))

\* o.k = v
SetProp(v, k, x) == IF v.t = "obj" THEN JObj((k :> x) @@ v.o) ELSE v

\* Mutant: the character of the session is not looked up.
migrateSession_Untitled(session, characters) ==
  IF Truthy(Get(session, "characterId")) /\ ~Truthy(Get(session, "characterIds"))
  THEN JObj([id |-> Get(session, "id"),
             characterIds |-> JArr(<<Get(session, "characterId")>>),
             name |-> JStr("Untitled Chat"),
             messages |-> IF Get(session, "messages").t = "arr"
                          THEN Get(session, "messages")
                          ELSE JArr(<<>>)])
  ELSE IF Get(session, "messages").t # "arr"
       THEN SetProp(session, "messages", JArr(<<>>))
       ELSE session

\* The map over chatSessions: the legacy single-character session format.
migrateSession(session, characters) ==
  IF Truthy(Get(session, "characterId")) /\ ~Truthy(Get(session, "characterIds"))
  THEN LET found == SelectSeq(characters,
                       LAMBDA c : Get(c, "id") = Get(session, "characterId"))
       IN  JObj([id |-> Get(session, "id"),
                 characterIds |-> JArr(<<Get(session, "characterId")>>),
                 name |-> IF Len(found) > 0
                          THEN ChatWith(Get(found[1], "name"))
                          ELSE JStr("Untitled Chat"),
                 messages |-> IF Get(session, "messages").t = "arr"
                              THEN Get(session, "messages")
                              ELSE JArr(<<>>)])
  ELSE IF Get(session, "messages").t # "arr"
       THEN SetProp(session, "messages", JArr(<<>>))
       ELSE session

\* The validation and sanitization of loadData on an object rawData.
sanitize(rawData) ==
  LET characters == FilterObjects(ArrayOrEmpty(Get(rawData, "characters")))
      chatSessions == FilterObjects(ArrayOrEmpty(Get(rawData, "chatSessions")))
      plugins == FilterObjects(ArrayOrEmpty(Get(rawData, "plugins")))
      lorebooks == FilterObjects(ArrayOrEmpty(Get(rawData, "lorebooks")))
  IN  JObj([characters |-> JArr(characters),
            chatSessions |->
              JArr([i \in 1..Len(chatSessions) |->
                      migrateSession(chatSessions[i], characters)]),
            plugins |-> JArr(plugins),
            lorebooks |-> JArr(lorebooks),
            userKeys |-> Get(rawData, "userKeys")])

\* The two default characters (their long text fields are left out).
zombieApocChar ==
  JObj([id |-> JStr("default-zombie-apocalypse"), name |-> JStr("Zombie Apocalypse")])
amyChar == JObj([id |-> JStr("default-amy-aime"), name |-> JStr("Amy")])

emptyData ==
  JObj([characters |-> JArr(<<zombieApocChar, amyChar>>),
        chatSessions |-> JArr(<<>>),
        plugins |-> JArr(<<>>),
        lorebooks |-> JArr(<<>>)])

\* ----------------------------------------------------------- the state
VARIABLES
  db,                          \* IndexedDB appDataStore: data, verifier, salt
  ls,                          \* localStorage: the same three keys
  masterCryptoKey,             \* NoKey when null
  masterPasswordForMigration,  \* NoPass when null
  last,                        \* the call that returned last, and its result
  account,                     \* what the store held when the program started
  scen,                        \* the calls made so far, while they follow Scenarios
  setBy,                       \* on a new account: password of the latest
                               \* setMasterPassword call when it completed
  authed,                      \* since the page was loaded, a setMasterPassword
                               \* completed or a verifyMasterPassword returned true
  salts,                       \* number of salts getRandomValues has returned
  call,                        \* a helper applied on its own: its name, its
                               \* arguments and what it returned
  inflight,                    \* the saveData and loadData calls that overlap:
                               \* for each, the await it is at and its locals
  vectorStore,                 \* IndexedDB vectorStore: the chunk under each id
  appData,                     \* the React state appData of the application
  authState                    \* the React state of App: isAuthenticated and
                               \* isPasswordSet

vars ==
  <<db, ls, masterCryptoKey, masterPasswordForMigration, last, account, scen,
    setBy, authed, salts, call, inflight, vectorStore, appData, authState>>

\* getRandomValues(new Uint8Array(16)): 16 random bytes never returned before.
FreshSalt == salts + 1

\* The module state and the stores as one value, threaded through a handler.
Cur ==
  [db |-> db, ls |-> ls, key |-> masterCryptoKey,
   mpass |-> masterPasswordForMigration]

EmptyStore == [data |-> Absent, verifier |-> Absent, salt |-> Absent]

\* Results of a call.
Raise == [k |-> "raise"]
Crashed == [k |-> "crash"]          \* the process stopped inside the call
RetVoid == [k |-> "void"]
RetBool(b) == [k |-> "bool", b |-> b]
RetData(d) == [k |-> "data", d |-> d]

\* What a handler did: the state it leaves, its result, the branch it took
\* and the injected fault it ran into ("none" when it met none).
Out(S, res, path, fault) == [S |-> S, res |-> res, path |-> path, fault |-> fault]

\* A page reload or crash: the module is initialised again.
Restart(S) == [S EXCEPT !.key = NoKey, !.mpass = NoPass]

\* ----------------------------------------------------- storage helpers
\* setToDB: store.put(value, key), or a rejected promise.
setToDB(S, key, value, rejects) ==
  IF rejects THEN [ok |-> FALSE, S |-> S]
  ELSE [ok |-> TRUE, S |-> [S EXCEPT !.db[key] = value]]

\* migrateKey: copy a localStorage value into IndexedDB, then remove it;
\* a failure is logged and swallowed.
migrateKey(S, key, rejects) ==
  LET lsValue == S.ls[key] IN
  IF lsValue # Absent
  THEN LET w == setToDB(S, key, lsValue, rejects)
       IN  IF w.ok THEN [w.S EXCEPT !.ls[key] = Absent] ELSE S
  ELSE S

\* ------------------------------------------------------------ handlers
\* Faults f: "none"; "read": getFromDB rejects; "mig": setToDB rejects inside
\* migrateKey; "nswrite", "salt", "verifier", "blob": that setToDB rejects;
\* "crash_salt", "crash_verifier": the process stops once that write is done.

hasMasterPassword(S, f) ==
  LET S1 == migrateKey(S, "verifier", f = "mig")
      hit == IF f = "mig" /\ S.ls.verifier # Absent THEN "mig" ELSE "none"
  IN  IF f = "read" THEN Out(S1, Raise, "raise", "read")
      ELSE Out(S1, RetBool(S1.db.verifier # Absent), "ret", hit)

\* Mutant: the password itself is stored as the verifier.
setMasterPassword_StoresPassword(S, password, salt, iv, f) ==
  LET S1 == [S EXCEPT !.mpass = password]
      key == deriveKey(password, salt)
      S2 == [S1 EXCEPT !.key = key]
      w1 == setToDB(S2, "salt", SaltVal(salt), f = "salt")
      w2 == setToDB(w1.S, "verifier", JStr(password), f = "verifier")
      S3 == [w2.S EXCEPT !.ls.verifier = Absent, !.ls.salt = Absent]
  IN  IF ~w1.ok THEN Out(S2, Raise, "raise", "salt")
      ELSE IF f = "crash_salt" THEN Out(Restart(w1.S), Crashed, "crash", f)
      ELSE IF ~w2.ok THEN Out(w1.S, Raise, "raise", "verifier")
      ELSE Out(S3, RetVoid, "ret", "none")

setMasterPassword(S, password, salt, iv, f) ==
  LET S1 == [S EXCEPT !.mpass = password]
      key == deriveKey(password, salt)
      S2 == [S1 EXCEPT !.key = key]
      verifier == encryptData(Sentinel, key, iv)
      w1 == setToDB(S2, "salt", SaltVal(salt), f = "salt")
      w2 == setToDB(w1.S, "verifier", verifier, f = "verifier")
      S3 == [w2.S EXCEPT !.ls.verifier = Absent, !.ls.salt = Absent]
  IN  IF ~w1.ok THEN Out(S2, Raise, "raise", "salt")
      ELSE IF f = "crash_salt" THEN Out(Restart(w1.S), Crashed, "crash", f)
      ELSE IF ~w2.ok THEN Out(w1.S, Raise, "raise", "verifier")
      ELSE Out(S3, RetVoid, "ret", "none")

\* The modern path of verifyMasterPassword (the try block of the salt branch).
verifyModern(S, password, salt, verifier, hit) ==
  LET key == deriveKey(password, salt.n)
      S1 == [S EXCEPT !.key = key]
      decrypted == decryptData(verifier, key)
  IN  IF decrypted.ok
      THEN Out(S1, RetBool(decrypted.val = Sentinel), "modern", hit)
      ELSE Out(S1, RetBool(FALSE), "modern", hit)

\* Mutant: the legacy path has no catch.
verifyLegacy_NoCatch(S, password, verifier, hit) ==
  LET decrypted == legacyDecrypt(verifier, password)
  IN  IF decrypted.ok
      THEN Out(S, RetBool(decrypted.val = Sentinel), "legacy", hit)
      ELSE Out(S, Raise, "legacy", hit)

\* The legacy path of verifyMasterPassword.
verifyLegacy(S, password, verifier, hit) ==
  LET decrypted == legacyDecrypt(verifier, password)
  IN  IF decrypted.ok
      THEN Out(S, RetBool(decrypted.val = Sentinel), "legacy", hit)
      ELSE Out(S, RetBool(FALSE), "legacy", hit)

verifyMasterPassword(S, password, f) ==
  LET S1 == [S EXCEPT !.mpass = password]
      S2 == migrateKey(S1, "verifier", f = "mig")
      S3 == migrateKey(S2, "salt", f = "mig")
      hit == IF f = "mig" /\ (S.ls.verifier # Absent \/ S.ls.salt # Absent)
             THEN "mig" ELSE "none"
      salt == S3.db.salt
      verifier == S3.db.verifier
  IN  IF f = "read" THEN Out(S3, Raise, "raise", "read")
      ELSE IF ~Truthy(verifier) THEN Out(S3, RetBool(FALSE), "absent", hit)
      ELSE IF Truthy(salt) THEN verifyModern(S3, password, salt, verifier, hit)
      ELSE verifyLegacy(S3, password, verifier, hit)

\* Mutant: the nonce of the stored blob is used again.
saveData_StoredNonce(S, data, iv, f) ==
  IF S.key = NoKey THEN Out(S, Raise, "nokey", "none")
  ELSE LET again == IF S.db.data.t = "gcm" THEN S.db.data.iv ELSE iv
           encryptedData == encryptData(JSONstringify(data), S.key, again)
           w == setToDB(S, "data", encryptedData, f = "blob")
       IN  IF w.ok THEN Out(w.S, RetVoid, "ret", "none")
           ELSE Out(S, Raise, "raise", "blob")

saveData(S, data, iv, f) ==
  IF S.key = NoKey THEN Out(S, Raise, "nokey", "none")
  ELSE LET encryptedData == encryptData(JSONstringify(data), S.key, iv)
           w == setToDB(S, "data", encryptedData, f = "blob")
       IN  IF w.ok THEN Out(w.S, RetVoid, "ret", "none")
           ELSE Out(S, Raise, "raise", "blob")

\* Mutant: the localStorage blob is copied whatever IndexedDB holds.
locateBlob_Overwrites(S, f) ==
  LET lsData == S.ls.data
      encryptedData == S.db.data
  IN  IF f = "read"
      THEN [ok |-> FALSE, S |-> S, blob |-> Absent, fault |-> "read"]
      ELSE IF Truthy(lsData)
      THEN LET w == setToDB(S, "data", lsData, f = "nswrite")
           IN  IF w.ok
               THEN [ok |-> TRUE, S |-> [w.S EXCEPT !.ls.data = Absent],
                     blob |-> lsData, fault |-> "none"]
               ELSE [ok |-> FALSE, S |-> S, blob |-> Absent, fault |-> "nswrite"]
      ELSE [ok |-> TRUE, S |-> S, blob |-> encryptedData, fault |-> "none"]

\* loadData, first try block: find the blob, moving it out of localStorage.
locateBlob(S, f) ==
  LET lsData == S.ls.data
      encryptedData == S.db.data
  IN  IF f = "read"
      THEN [ok |-> FALSE, S |-> S, blob |-> Absent, fault |-> "read"]
      ELSE IF ~Truthy(encryptedData) /\ Truthy(lsData)
      THEN LET w == setToDB(S, "data", lsData, f = "nswrite")
           IN  IF w.ok
               THEN [ok |-> TRUE, S |-> [w.S EXCEPT !.ls.data = Absent],
                     blob |-> lsData, fault |-> "none"]
               ELSE [ok |-> FALSE, S |-> S, blob |-> Absent, fault |-> "nswrite"]
      ELSE [ok |-> TRUE, S |-> S, blob |-> encryptedData, fault |-> "none"]

\* Mutant: the upgrade never persists the new salt.
securityUpgrade_NoSalt(S, rawData, newSalt, ivVerifier, ivBlob, f) ==
  LET newKey == deriveKey(S.mpass, newSalt)
      S1 == [S EXCEPT !.key = newKey]
      newVerifier == encryptData(Sentinel, newKey, ivVerifier)
      w2 == setToDB(S1, "verifier", newVerifier, f = "verifier")
      sv == saveData(w2.S, rawData, ivBlob, f)
  IN  IF ~w2.ok THEN Out(S1, Raise, "upgrade_failed", "verifier")
      ELSE IF sv.res = Raise THEN Out(sv.S, Raise, "upgrade_failed", "blob")
      ELSE Out(sv.S, RetVoid, "upgraded", "none")

\* loadData, "Perform Security Upgrade": new salt, new key, new verifier,
\* then the blob again under the new key.
securityUpgrade(S, rawData, newSalt, ivVerifier, ivBlob, f) ==
  LET newKey == deriveKey(S.mpass, newSalt)
      S1 == [S EXCEPT !.key = newKey]
      newVerifier == encryptData(Sentinel, newKey, ivVerifier)
      w1 == setToDB(S1, "salt", SaltVal(newSalt), f = "salt")
      w2 == setToDB(w1.S, "verifier", newVerifier, f = "verifier")
      sv == saveData(w2.S, rawData, ivBlob, f)
  IN  IF ~w1.ok THEN Out(S1, Raise, "upgrade_failed", "salt")
      ELSE IF f = "crash_salt" THEN Out(Restart(w1.S), Crashed, "crash", f)
      ELSE IF ~w2.ok THEN Out(w1.S, Raise, "upgrade_failed", "verifier")
      ELSE IF f = "crash_verifier" THEN Out(Restart(w2.S), Crashed, "crash", f)
      ELSE IF sv.res = Raise THEN Out(sv.S, Raise, "upgrade_failed", "blob")
      ELSE Out(sv.S, RetVoid, "upgraded", "none")

\* loadData, body of the second try block: rawData, or what it raises.
\* Mutant: the passphrase kept for migration is tried before the cached key.
decryptBlob_PassFirst(S, encryptedData, newSalt, ivVerifier, ivBlob, f) ==
  IF S.mpass # NoPass
  THEN LET jsonString == legacyDecrypt(encryptedData, S.mpass)
           rawData == IF jsonString.ok THEN JSONparse(jsonString.val) ELSE Thrown
       IN  IF ~rawData.ok THEN Out(S, Raise, "legacy_failed", "none")
           ELSE LET up == securityUpgrade(S, rawData.val, newSalt, ivVerifier,
                                          ivBlob, f)
                IN  IF up.res = RetVoid
                    THEN Out(up.S, RetData(rawData.val), "upgraded", "none")
                    ELSE up
  ELSE IF S.key = NoKey THEN Out(S, Raise, "legacy_failed", "none")
  ELSE LET jsonString == decryptData(encryptedData, S.key)
           rawData == IF jsonString.ok THEN JSONparse(jsonString.val) ELSE Thrown
       IN  IF rawData.ok THEN Out(S, RetData(rawData.val), "modern", "none")
           ELSE Out(S, Raise, "modern_failed", "none")

\* Mutant: a failed decryption under the cached key forgets the key.
decryptBlob_FailureForgets(S, encryptedData, newSalt, ivVerifier, ivBlob, f) ==
  IF S.key # NoKey
  THEN LET jsonString == decryptData(encryptedData, S.key)
           rawData == IF jsonString.ok THEN JSONparse(jsonString.val) ELSE Thrown
       IN  IF rawData.ok THEN Out(S, RetData(rawData.val), "modern", "none")
           ELSE Out(Restart(S), Raise, "modern_failed", "none")
  ELSE decryptBlob_PassFirst(S, encryptedData, newSalt, ivVerifier, ivBlob, f)

decryptBlob(S, encryptedData, newSalt, ivVerifier, ivBlob, f) ==
  IF S.key # NoKey
  THEN LET jsonString == decryptData(encryptedData, S.key)
           rawData == IF jsonString.ok THEN JSONparse(jsonString.val) ELSE Thrown
       IN  IF rawData.ok THEN Out(S, RetData(rawData.val), "modern", "none")
           ELSE Out(S, Raise, "modern_failed", "none")
  ELSE IF S.mpass = NoPass THEN Out(S, Raise, "legacy_failed", "none")
  ELSE LET jsonString == legacyDecrypt(encryptedData, S.mpass)
           rawData == IF jsonString.ok THEN JSONparse(jsonString.val) ELSE Thrown
       IN  IF ~rawData.ok THEN Out(S, Raise, "legacy_failed", "none")
           ELSE LET up == securityUpgrade(S, rawData.val, newSalt, ivVerifier,
                                          ivBlob, f)
                IN  IF up.res = RetVoid
                    THEN Out(up.S, RetData(rawData.val), "upgraded", "none")
                    ELSE up

\* Mutant: the second try block has no catch.
loadData_NoCatch(S, newSalt, ivVerifier, ivBlob, f) ==
  LET loc == locateBlob(S, f) IN
  IF ~loc.ok THEN Out(loc.S, RetData(emptyData), "storage_error", loc.fault)
  ELSE IF ~Truthy(loc.blob) THEN Out(loc.S, RetData(emptyData), "first_run", "none")
  ELSE LET r == decryptBlob(loc.S, loc.blob, newSalt, ivVerifier, ivBlob, f) IN
       IF r.res = Crashed \/ r.res = Raise THEN r
       ELSE IF ~TypeofObject(r.res.d) \/ r.res.d = JNull
            THEN Out(r.S, RetData(emptyData), "not_object", "none")
            ELSE Out(r.S, RetData(sanitize(r.res.d)), r.path, "none")

\* Mutant: a first run forgets the session.
loadData_FirstRunForgets(S, newSalt, ivVerifier, ivBlob, f) ==
  LET loc == locateBlob(S, f) IN
  IF ~loc.ok THEN Out(loc.S, RetData(emptyData), "storage_error", loc.fault)
  ELSE IF ~Truthy(loc.blob)
  THEN Out(Restart(loc.S), RetData(emptyData), "first_run", "none")
  ELSE LET r == decryptBlob(loc.S, loc.blob, newSalt, ivVerifier, ivBlob, f) IN
       IF r.res = Crashed THEN r
       ELSE IF r.res = Raise THEN Out(r.S, RetData(emptyData), r.path, r.fault)
       ELSE IF ~TypeofObject(r.res.d) \/ r.res.d = JNull
            THEN Out(r.S, RetData(emptyData), "not_object", "none")
            ELSE Out(r.S, RetData(sanitize(r.res.d)), r.path, "none")

\* loadData after the second try block: the shape check on rawData, then the
\* sanitization; what loadData returns, and whether rawData was sanitized.
validated(rawData) ==
  IF ~TypeofObject(rawData) \/ rawData = JNull
  THEN [sanitized |-> FALSE, d |-> emptyData]
  ELSE [sanitized |-> TRUE, d |-> sanitize(rawData)]

loadData(S, newSalt, ivVerifier, ivBlob, f) ==
  LET loc == locateBlob(S, f) IN
  IF ~loc.ok THEN Out(loc.S, RetData(emptyData), "storage_error", loc.fault)
  ELSE IF ~Truthy(loc.blob) THEN Out(loc.S, RetData(emptyData), "first_run", "none")
  ELSE LET r == decryptBlob(loc.S, loc.blob, newSalt, ivVerifier, ivBlob, f) IN
       IF r.res = Crashed THEN r
       ELSE IF r.res = Raise THEN Out(r.S, RetData(emptyData), r.path, r.fault)
       ELSE LET v == validated(r.res.d) IN
            Out(r.S, RetData(v.d), IF v.sanitized THEN r.path ELSE "not_object", "none")

\* -------------------------------------------------------------- actions
\* The call sequences the scenario claims follow on a legacy account, as
\* lists of <<call, fault met>>; scen records the calls made while they are a
\* prefix of one of these, and Off afterwards.
Off == << <<"off", "off">> >>
V == <<"verify", "none">>
L == <<"load", "none">>
Sv == <<"save", "none">>
Scenarios ==
  { <<>>, <<V>>, <<V, L>>, <<V, L, V>>, <<V, L, Sv>>, <<V, Sv>> }
  \cup UNION { { <<V, <<"load", x>> >>, <<V, <<"load", x>>, L>> } :
               x \in {"salt", "verifier", "blob"} }
  \cup UNION { { <<V, <<"load", x>> >>, <<V, <<"load", x>>, V>>,
                 <<V, <<"load", x>>, V, L>> } :
               x \in {"crash_salt", "crash_verifier"} }

Follow(label) ==
  IF scen # Off /\ Append(scen, label) \in Scenarios THEN Append(scen, label) ELSE Off

\* The effect of a call with outcome o on the program's state and on the
\* record of the last call.
Effect(op, o) ==
  /\ db' = o.S.db
  /\ ls' = o.S.ls
  /\ masterCryptoKey' = o.S.key
  /\ masterPasswordForMigration' = o.S.mpass
  /\ last' = [op |-> op, res |-> o.res, path |-> o.path, fault |-> o.fault]
  /\ account' = account
  /\ inflight' = inflight
  /\ vectorStore' = vectorStore
  /\ appData' = appData
  /\ authState' = authState

HasPassword ==
  \E f \in {"none", "mig", "read"} :
    \E o \in {hasMasterPassword(Cur, f)} :
    /\ Effect("has", o)
    /\ call' = call
    /\ UNCHANGED <<scen, setBy, authed, salts>>

SetPassword ==
  \E p \in Passphrases, iv \in Nonces,
     f \in {"none", "salt", "verifier", "crash_salt"} :
    \E o \in {setMasterPassword(Cur, p, FreshSalt, iv, f)} :
    /\ salts < MaxSalts
    /\ salts' = salts + 1
    /\ Effect("set", o)
    /\ call' = call
    /\ scen' = Off
    /\ setBy' = IF account.kind = "new" /\ o.res = RetVoid THEN p ELSE NoPass
    /\ authed' = IF o.res = Crashed THEN FALSE ELSE (authed \/ o.res = RetVoid)

VerifyPassword ==
  \E p \in Passphrases, f \in {"none", "mig", "read"} :
    \E o \in {verifyMasterPassword(Cur, p, f)} :
    /\ Effect("verify", o)
    /\ call' = call
    /\ salts' = salts
    /\ scen' = IF p = account.pass THEN Follow(<<"verify", o.fault>>) ELSE Off
    /\ setBy' = setBy
    /\ authed' = (authed \/ o.res = RetBool(TRUE))

SaveData ==
  \E d \in Docs, iv \in Nonces, f \in {"none", "blob"} :
    \E o \in {saveData(Cur, d, iv, f)} :
    /\ Effect("save", o)
    /\ call' = call
    /\ salts' = salts
    /\ scen' = Follow(<<"save", o.fault>>)
    /\ UNCHANGED <<setBy, authed>>

LoadData ==
  \E ivVerifier \in Nonces, ivBlob \in Nonces,
     f \in {"none", "read", "nswrite", "salt", "verifier", "blob",
            "crash_salt", "crash_verifier"} :
    \E o \in {loadData(Cur, FreshSalt, ivVerifier, ivBlob, f)} :
    LET upgrade == o.path \in {"upgraded", "upgrade_failed", "crash"} IN
    /\ upgrade => salts < MaxSalts
    /\ salts' = IF upgrade THEN salts + 1 ELSE salts
    /\ Effect("load", o)
    /\ call' = call
    /\ scen' = Follow(<<"load", o.fault>>)
    /\ setBy' = setBy
    /\ authed' = IF o.res = Crashed THEN FALSE ELSE authed

\* The page is closed and opened again: the module state starts over.
Reload ==
  /\ masterCryptoKey' = NoKey
  /\ masterPasswordForMigration' = NoPass
  /\ last' = [op |-> "reload", res |-> RetVoid, path |-> "ret", fault |-> "none"]
  /\ scen' = Off
  /\ authed' = FALSE
  /\ UNCHANGED <<db, ls, account, setBy, salts, call, inflight, vectorStore, appData, authState>>

\* The store of an account of an earlier release: verifier and blob under
\* the XOR cipher, in localStorage, no salt.
LegacyStore(pass, doc, verifier) ==
  [data |-> legacyEncrypt(JSONstringify(doc), pass),
   verifier |-> verifier,
   salt |-> Absent]

\* No helper has been applied on its own.
NoCall == [fn |-> "none", in |-> <<>>, out |-> <<>>]

\* The calls that may overlap, and a call not made yet.
CallIds == {1, 2}
NotCalled ==
  [op |-> "none", pc |-> "idle", doc |-> Undef, json |-> <<>>, key |-> NoKey,
   pass |-> NoPass,
   enc |-> Absent, blob |-> Absent, raw |-> Undef, salt |-> 0,
   res |-> RetVoid, seq |-> 0, inv |-> 0]
NoCalls == [i \in CallIds |-> NotCalled]

\* The ids of vector chunks, in key order, and the empty vectorStore.
ChunkIdOrder == <<"k1", "k2">>
ChunkIds == {ChunkIdOrder[i] : i \in 1..Len(ChunkIdOrder)}
NoChunks == [id \in ChunkIds |-> Absent]

\* The application's view of a dataset: the user's keypair (0: none), for
\* each character id the character's keypair (Absent: no such character),
\* and whether the default plugins are in it.  useState's initial value.
CharacterIds == {"c1", "c2"}
NoAppData ==
  [userKeys |-> 0, characters |-> [c \in CharacterIds |-> Absent], plugins |-> FALSE]

\* App's useState initial values
NoAuth == [isAuthenticated |-> FALSE, isPasswordSet |-> FALSE]

Init ==
  /\ call = NoCall
  /\ inflight = NoCalls
  /\ vectorStore = NoChunks /\ appData = NoAppData /\ authState = NoAuth
  /\ masterCryptoKey = NoKey
  /\ masterPasswordForMigration = NoPass
  /\ last = [op |-> "start", res |-> RetVoid, path |-> "ret", fault |-> "none"]
  /\ setBy = NoPass
  /\ authed = FALSE
  /\ salts = 0
  /\ \/ /\ account = [kind |-> "new", pass |-> NoPass, doc |-> Undef, intact |-> FALSE]
        /\ db = EmptyStore
        /\ ls = EmptyStore
        /\ scen = Off
     \/ \E intact \in BOOLEAN :
          LET pass == Pw1
              doc == DocTable[2].json
              store == LegacyStore(pass, doc,
                         IF intact THEN legacyEncrypt(Sentinel, pass) ELSE Junk)
          IN  /\ account = [kind |-> "legacy", pass |-> pass, doc |-> doc,
                            intact |-> intact]
              /\ db = EmptyStore
              /\ ls = store
              /\ scen = IF intact THEN <<>> ELSE Off

Next ==
  \/ HasPassword
  \/ SetPassword
  \/ VerifyPassword
  \/ SaveData
  \/ LoadData
  \/ Reload

Spec == Init /\ [][Next]_vars

\* ---------------------------------------------------------------- claims
\* The passphrase verifyMasterPassword was called with: its first statement
\* stores it in masterPasswordForMigration.
Typed == masterPasswordForMigration

\* The calls of scenario s have been made, in this order and with these
\* faults, and the last of them is the call that returned last.
At(s) == scen = s /\ last.op = s[Len(s)][1]

\* C1: on an account created by setMasterPassword(P) in an empty store,
\* verifyMasterPassword(Q) returns true when Q = P and false for every other
\* Q, in the session of the call and in every later one.
C1_PasswordLifecycle ==
  (account.kind = "new" /\ setBy # NoPass /\ last.op = "verify" /\ last.fault = "none")
    => last.res = RetBool(Typed = setBy)

\* C1 witness: a later verifyMasterPassword(P) on such an account returned true.
C1_Witness ==
  /\ account.kind = "new" /\ setBy # NoPass
  /\ last.op = "verify" /\ last.res = RetBool(TRUE) /\ Typed = setBy

\* C2: while no setMasterPassword call has completed and no
\* verifyMasterPassword call has returned true since the page was loaded,
\* saveData raises and leaves the persisted blob as it was.
C2_NoSessionSaveRejected ==
  [][(last'.op = "save" /\ ~authed')
       => (last'.res = Raise /\ db'.data = db.data)]_vars

\* C3: on a legacy account with passphrase P, verifyMasterPassword(P) returns
\* true on the legacy path; the loadData that follows returns the document of
\* the legacy blob (validated) and leaves a salt persisted; the
\* verifyMasterPassword(P) after it takes the modern path and returns true.
C3_EndToEndMigration ==
  /\ At(<<V>>) => (last.res = RetBool(TRUE) /\ last.path = "legacy")
  /\ At(<<V, L>>) =>
       (last.res = RetData(sanitize(account.doc)) /\ Truthy(db.salt))
  /\ At(<<V, L, V>>) => (last.res = RetBool(TRUE) /\ last.path = "modern")

\* C3 witness: the three calls were made and the last returned true.
C3_Witness == At(<<V, L, V>>) /\ last.res = RetBool(TRUE) /\ last.path = "modern"

\* The passphrase the account's legacy verifier and blob are under.
P == account.pass

\* C4: when the process stops inside the security upgrade, after the salt
\* write or after the salt and verifier writes, verifyMasterPassword(P) in
\* the next session returns true and the loadData after it returns the
\* document of the legacy blob.
C4_CrashTolerantUpgrade ==
  \A c \in {"crash_salt", "crash_verifier"} :
    /\ At(<<V, <<"load", c>>, V>>) => last.res = RetBool(TRUE)
    /\ At(<<V, <<"load", c>>, V, L>>) => last.res = RetData(sanitize(account.doc))

\* C5: when a write of the security upgrade is rejected inside loadData, the
\* next loadData of the same session returns the document of the legacy blob.
C5_RetryAfterFailedUpgrade ==
  \A x \in {"salt", "verifier", "blob"} :
    At(<<V, <<"load", x>>, L>>) => last.res = RetData(sanitize(account.doc))

\* The document of the latest saveData call, read back from the persisted blob.
Saved == IF db.data.t = "gcm" THEN JSONparse(db.data.pt) ELSE Thrown

\* C6: on an account made by setMasterPassword, with a document d saved under
\* the account's key, loadData returns sanitize(d) in every session in which
\* setMasterPassword completed or verifyMasterPassword returned true; calls
\* that only read (hasMasterPassword, loadData, a verifyMasterPassword that
\* returned false) in between make no difference.
C6_SaveLoadRoundTrip ==
  ( /\ account.kind = "new" /\ setBy # NoPass /\ authed
    /\ last.op = "load" /\ last.fault = "none"
    /\ Saved.ok /\ Saved.val.t = "obj"
    /\ db.verifier.t = "gcm" /\ db.data.k = db.verifier.k )
    => last.res = RetData(sanitize(Saved.val))

\* C7: loadData returns a dataset and never raises, and the dataset is the
\* default one whenever storage access, decryption, parsing, the security
\* upgrade or the shape check failed.
C7_LoadNeverRaises ==
  (last.op = "load" /\ last.res # Crashed) =>
    /\ last.res.k = "data"
    /\ last.path \in {"storage_error", "modern_failed", "legacy_failed",
                      "upgrade_failed", "not_object"}
         => last.res = RetData(emptyData)

\* C7 witness: a write of the security upgrade was rejected and loadData
\* returned the default dataset.
C7_Witness ==
  last.op = "load" /\ last.path = "upgrade_failed" /\ last.res = RetData(emptyData)

\* C8: a verifyMasterPassword call that returns false leaves masterCryptoKey
\* and masterPasswordForMigration as they were before the call.
C8_FailedVerifyCachesNothing ==
  [][(last'.op = "verify" /\ last'.res = RetBool(FALSE))
       => /\ masterCryptoKey' = masterCryptoKey
          /\ masterPasswordForMigration' = masterPasswordForMigration]_vars

\* C9: after verifyMasterPassword returned true on the legacy path no key is
\* cached, and saveData before any loadData raises; after the loadData that
\* performed the security upgrade a key is cached and saveData succeeds.
C9_LegacyVerifyLeavesNoKey ==
  /\ (last.op = "verify" /\ last.path = "legacy" /\ last.res = RetBool(TRUE))
       => masterCryptoKey = NoKey
  /\ At(<<V, Sv>>) => last.res = Raise
  /\ At(<<V, L>>) => masterCryptoKey # NoKey
  /\ At(<<V, L, Sv>>) => last.res = RetVoid

\* The verification failures of C10, for the verifyMasterPassword call that
\* returned last: no verifier stored, a verifier that cannot be decoded, a
\* passphrase other than the one the verifier was made under.
VerifierAbsent == last.path = "absent"
VerifierCorrupt == last.path \in {"modern", "legacy"} /\ db.verifier = Junk
WrongOnModern ==
  last.path = "modern" /\ db.verifier.t = "gcm" /\ Typed # db.verifier.k.p
WrongOnLegacy == last.path = "legacy" /\ account.kind = "legacy" /\ Typed # P

\* The key characters the XOR cipher applies to the 19 characters of Sentinel.
Keystream(p) == [i \in 1..Len(Sentinel) |-> p[((i - 1) % Len(p)) + 1]]

\* C10, as stated: verifyMasterPassword returns false, and raises nothing,
\* for an absent verifier, a corrupt verifier and a wrong passphrase, on the
\* modern and on the legacy path.
C10_Original ==
  (last.op = "verify" /\ last.path # "raise"
     /\ (VerifierAbsent \/ VerifierCorrupt \/ WrongOnModern \/ WrongOnLegacy))
    => last.res = RetBool(FALSE)

\* C10, amended: verifyMasterPassword raises for none of these and returns
\* false for an absent verifier, a corrupt verifier, a wrong passphrase on the
\* modern path, and on the legacy path a wrong passphrase whose repetition
\* differs from that of P somewhere in the first 19 characters.
C10_FailuresReturnFalse ==
  (last.op = "verify" /\ last.path # "raise") =>
    /\ last.res.k = "bool"
    /\ ( \/ VerifierAbsent \/ VerifierCorrupt \/ WrongOnModern
         \/ (WrongOnLegacy /\ Keystream(Typed) # Keystream(P)) )
         => last.res = RetBool(FALSE)
    /\ (WrongOnLegacy /\ ~VerifierCorrupt /\ Keystream(Typed) = Keystream(P))
         => last.res = RetBool(TRUE)

\* C10 witness: the legacy path turned down a wrong passphrase.
C10_Witness ==
  /\ last.op = "verify" /\ WrongOnLegacy /\ ~VerifierCorrupt
  /\ Keystream(Typed) # Keystream(P) /\ last.res = RetBool(FALSE)

Moved == [Cur EXCEPT !.db.data = ls.data, !.ls.data = Absent]

Long20a == Sentinel \o <<97>>
Long20b == Sentinel \o <<98>>
LegacyPassphrases ==
  UNION { [1..n -> {112, 119}] : n \in 1..3 } \cup {Long20a, Long20b}

\* A fresh session on the store of a legacy account under passphrase p.
LegacyAccount(p) ==
  [db |-> EmptyStore,
   ls |-> LegacyStore(p, DocTable[1].json, legacyEncrypt(Sentinel, p)),
   key |-> NoKey, mpass |-> NoPass]

\* verifyMasterPassword(q) on a legacy account under passphrase p.
LegacyVerify ==
  LET p == call.in[1]
      q == call.in[2]
  IN
    /\ call.fn = "none"
    /\ call' = [fn |-> "verifyMasterPassword", in |-> call.in,
                out |-> verifyMasterPassword(LegacyAccount(p), q, "none")]
    /\ UNCHANGED <<db, ls, masterCryptoKey, masterPasswordForMigration, last,
                   account, scen, setBy, authed, salts, inflight, vectorStore,
                 appData, authState>>

\* The arguments a helper is about to be applied to.
Args(in) == [fn |-> "none", in |-> in, out |-> <<>>]

\* The program's variables, where only a helper is applied.
Idle ==
  /\ db = EmptyStore /\ ls = EmptyStore
  /\ masterCryptoKey = NoKey /\ masterPasswordForMigration = NoPass
  /\ last = [op |-> "start", res |-> RetVoid, path |-> "ret", fault |-> "none"]
  /\ account = [kind |-> "new", pass |-> NoPass, doc |-> Undef, intact |-> FALSE]
  /\ scen = Off /\ setBy = NoPass /\ authed = FALSE /\ salts = 0
  /\ inflight = NoCalls
  /\ vectorStore = NoChunks /\ appData = NoAppData /\ authState = NoAuth

LegacyInit ==
  /\ \E p \in LegacyPassphrases, q \in LegacyPassphrases : call = Args(<<p, q>>)
  /\ Idle

LegacySpec == LegacyInit /\ [][LegacyVerify]_vars

\* C11, as stated: on a legacy account under passphrase P,
\* verifyMasterPassword(Q) returns false for every Q other than P.
C11_Original ==
  (call.fn = "verifyMasterPassword" /\ call.in[2] # call.in[1])
    => call.out.res = RetBool(FALSE)

\* C11, amended: on a legacy account under passphrase P,
\* verifyMasterPassword(Q) takes the legacy path and returns true exactly when
\* repeating Q and repeating P give the same 19 leading characters, so it
\* returns false for every other Q and true for P, for a Q that repeats P and
\* for a Q that agrees with P on the first 19 characters.
C11_LegacyRejectsOtherKeystreams ==
  call.fn = "verifyMasterPassword" =>
    /\ call.out.path = "legacy"
    /\ call.out.res = RetBool(Keystream(call.in[2]) = Keystream(call.in[1]))

\* C11 witness: a passphrase whose key stream differs from that of P within
\* the sentinel was turned down.
C11_Witness ==
  /\ call.fn = "verifyMasterPassword"
  /\ call.in = << <<112, 119>>, <<112, 119, 112>> >>
  /\ call.out.res = RetBool(FALSE)

\* --------------------------------------------- the codec, byte by byte
\* TextEncoder.encode: UTF-8 of a string of UTF-16 code units; a surrogate
\* that is not part of a pair is encoded as U+FFFD.
IsHighSurrogate(c) == c >= 55296 /\ c <= 56319
IsLowSurrogate(c) == c >= 56320 /\ c <= 57343

RECURSIVE TextEncode(_)
TextEncode(str) ==
  IF str = <<>> THEN <<>>
  ELSE LET c == Head(str) IN
    IF c < 128 THEN <<c>> \o TextEncode(Tail(str))
    ELSE IF c < 2048
    THEN <<192 + (c \div 64), 128 + (c % 64)>> \o TextEncode(Tail(str))
    ELSE IF IsHighSurrogate(c) /\ Len(str) > 1 /\ IsLowSurrogate(str[2])
    THEN LET cp == 65536 + ((c - 55296) * 1024) + (str[2] - 56320)
         IN  <<240 + (cp \div 262144), 128 + ((cp \div 4096) % 64),
               128 + ((cp \div 64) % 64), 128 + (cp % 64)>>
             \o TextEncode(Tail(Tail(str)))
    ELSE IF IsHighSurrogate(c) \/ IsLowSurrogate(c)
    THEN <<239, 191, 189>> \o TextEncode(Tail(str))
    ELSE <<224 + (c \div 4096), 128 + ((c \div 64) % 64), 128 + (c % 64)>>
         \o TextEncode(Tail(str))

\* UTF-8 decoding of well-formed UTF-8 (all AES-GCM ever releases here is
\* what TextEncode made); any other byte becomes U+FFFD.
RECURSIVE Utf8Decode(_)
Utf8Decode(b) ==
  IF b = <<>> THEN <<>>
  ELSE LET n == Len(b)
           b1 == b[1]
       IN
    IF b1 < 128 THEN <<b1>> \o Utf8Decode(Tail(b))
    ELSE IF b1 >= 192 /\ b1 < 224 /\ n >= 2
    THEN <<((b1 - 192) * 64) + (b[2] - 128)>> \o Utf8Decode(SubSeq(b, 3, n))
    ELSE IF b1 >= 224 /\ b1 < 240 /\ n >= 3
    THEN <<((b1 - 224) * 4096) + ((b[2] - 128) * 64) + (b[3] - 128)>>
         \o Utf8Decode(SubSeq(b, 4, n))
    ELSE IF b1 >= 240 /\ b1 < 248 /\ n >= 4
    THEN LET cp == ((b1 - 240) * 262144) + ((b[2] - 128) * 4096)
                   + ((b[3] - 128) * 64) + (b[4] - 128) - 65536
         IN  <<55296 + (cp \div 1024), 56320 + (cp % 1024)>>
             \o Utf8Decode(SubSeq(b, 5, n))
    ELSE <<65533>> \o Utf8Decode(Tail(b))

\* new TextDecoder().decode: UTF-8 decoding, and a leading U+FEFF is dropped.
TextDecode(b) ==
  LET u == Utf8Decode(b)
  IN  IF u # <<>> /\ Head(u) = 65279 THEN Tail(u) ELSE u

\* The base64 alphabet: the character of a 6-bit value, and back (-1 for a
\* character outside the alphabet).
B64Char(n) ==
  IF n < 26 THEN 65 + n
  ELSE IF n < 52 THEN 97 + (n - 26)
  ELSE IF n < 62 THEN 48 + (n - 52)
  ELSE IF n = 62 THEN 43 ELSE 47

B64Value(c) ==
  IF c >= 65 /\ c <= 90 THEN c - 65
  ELSE IF c >= 97 /\ c <= 122 THEN (c - 97) + 26
  ELSE IF c >= 48 /\ c <= 57 THEN (c - 48) + 52
  ELSE IF c = 43 THEN 62
  ELSE IF c = 47 THEN 63 ELSE -1

\* window.btoa on a binary string (all code units below 256).
RECURSIVE btoa(_)
btoa(b) ==
  LET n == Len(b) IN
  IF n = 0 THEN <<>>
  ELSE IF n = 1
  THEN <<B64Char(b[1] \div 4), B64Char((b[1] % 4) * 16), 61, 61>>
  ELSE IF n = 2
  THEN <<B64Char(b[1] \div 4), B64Char(((b[1] % 4) * 16) + (b[2] \div 16)),
         B64Char((b[2] % 16) * 4), 61>>
  ELSE <<B64Char(b[1] \div 4), B64Char(((b[1] % 4) * 16) + (b[2] \div 16)),
         B64Char(((b[2] % 16) * 4) + (b[3] \div 64)), B64Char(b[3] % 64)>>
       \o btoa(SubSeq(b, 4, n))

\* The bytes of a string of base64 characters without padding; the bits
\* left over after the last whole byte are dropped unread.
RECURSIVE B64Bytes(_)
B64Bytes(d) ==
  LET n == Len(d)
      v(i) == B64Value(d[i])
  IN
  IF n < 2 THEN <<>>
  ELSE IF n = 2 THEN <<(v(1) * 4) + (v(2) \div 16)>>
  ELSE IF n = 3
  THEN <<(v(1) * 4) + (v(2) \div 16), ((v(2) % 16) * 16) + (v(3) \div 4)>>
  ELSE <<(v(1) * 4) + (v(2) \div 16), ((v(2) % 16) * 16) + (v(3) \div 4),
         ((v(3) % 4) * 64) + v(4)>>
       \o B64Bytes(SubSeq(d, 5, n))

\* window.atob (forgiving-base64 decode): ASCII whitespace is removed, one or
\* two "=" are removed from the end of a string of 4n characters, and it
\* throws on a length of 4n+1 and on any other character.
atob(str) ==
  LET d0 == SelectSeq(str, LAMBDA c : c \notin {9, 10, 12, 13, 32})
      n0 == Len(d0)
      d == IF n0 % 4 = 0 /\ n0 > 0 /\ d0[n0] = 61
           THEN IF d0[n0 - 1] = 61 THEN SubSeq(d0, 1, n0 - 2)
                ELSE SubSeq(d0, 1, n0 - 1)
           ELSE d0
  IN  IF Len(d) % 4 = 1 \/ (\E i \in 1..Len(d) : B64Value(d[i]) = -1)
      THEN Thrown
      ELSE Returned(B64Bytes(d))

\* The bytes go through a binary string, one code unit per byte.
arrayBufferToBase64(buffer) == btoa(buffer)

base64ToArrayBuffer(base64) == atob(base64)

\* crypto.subtle.encrypt / decrypt with AES-GCM are the platform's.  A
\* stand-in with the same interface: the ciphertext has the length of the
\* data, a 16-byte tag follows it, and the tag depends on the key, on every
\* byte of the iv and on every byte of the data.
RECURSIVE SumSeq(_)
SumSeq(q) == IF q = <<>> THEN 0 ELSE Head(q) + SumSeq(Tail(q))

KeyNum(key) == (SumSeq(key.p) + (31 * key.s)) % 256

RECURSIVE WeightedSum(_, _, _)
WeightedSum(data, j, i) ==
  IF i > Len(data) THEN 0 ELSE (data[i] * (i + j)) + WeightedSum(data, j, i + 1)

GcmPad(data, key) ==
  [i \in 1..Len(data) |-> XorCode(data[i], (KeyNum(key) + i) % 256)]

GcmTag(key, iv, data) ==
  [j \in 1..16 |->
     ( (KeyNum(key) * j)
       + (7 * (IF iv = <<>> THEN 0 ELSE iv[((j - 1) % Len(iv)) + 1]))
       + WeightedSum(data, j, 1) ) % 256]

subtleEncrypt(key, iv, data) == GcmPad(data, key) \o GcmTag(key, iv, data)

subtleDecrypt(key, iv, ciphertext) ==
  LET n == Len(ciphertext) - 16 IN
  IF n < 0 THEN Thrown
  ELSE LET data == GcmPad(SubSeq(ciphertext, 1, n), key)
       IN  IF SubSeq(ciphertext, n + 1, n + 16) = GcmTag(key, iv, data)
           THEN Returned(data)
           ELSE Thrown

\* Uint8Array.prototype.slice(from, to) and slice(from)
Slice(b, from, to) == SubSeq(b, from + 1, IF to < Len(b) THEN to ELSE Len(b))
SliceFrom(b, from) == SubSeq(b, from + 1, Len(b))

\* encryptData, byte by byte: the string it returns.
encryptDataBytes(data, key, iv) ==
  LET dataBuffer == TextEncode(data)
      encryptedBuffer == subtleEncrypt(key, iv, dataBuffer)
      combinedBuffer == iv \o encryptedBuffer
  IN  arrayBufferToBase64(combinedBuffer)

\* Mutant: the iv is taken to be 16 bytes long.
decryptDataBytes_Slice16(encryptedBase64, key) ==
  LET combinedBuffer == base64ToArrayBuffer(encryptedBase64) IN
  IF ~combinedBuffer.ok THEN Thrown
  ELSE LET iv == Slice(combinedBuffer.val, 0, 16)
           ciphertext == SliceFrom(combinedBuffer.val, 16)
           decryptedBuffer == subtleDecrypt(key, iv, ciphertext)
       IN  IF decryptedBuffer.ok THEN Returned(TextDecode(decryptedBuffer.val))
           ELSE Thrown

\* Mutant: a failed decryption yields the empty string.
decryptDataBytes_Silent(encryptedBase64, key) ==
  LET combinedBuffer == base64ToArrayBuffer(encryptedBase64) IN
  IF ~combinedBuffer.ok THEN Thrown
  ELSE LET iv == Slice(combinedBuffer.val, 0, 12)
           ciphertext == SliceFrom(combinedBuffer.val, 12)
           decryptedBuffer == subtleDecrypt(key, iv, ciphertext)
       IN  IF decryptedBuffer.ok THEN Returned(TextDecode(decryptedBuffer.val))
           ELSE Returned(<<>>)

\* decryptData, byte by byte: the string it returns, or Thrown.
decryptDataBytes(encryptedBase64, key) ==
  LET combinedBuffer == base64ToArrayBuffer(encryptedBase64) IN
  IF ~combinedBuffer.ok THEN Thrown
  ELSE LET iv == Slice(combinedBuffer.val, 0, 12)
           ciphertext == SliceFrom(combinedBuffer.val, 12)
           decryptedBuffer == subtleDecrypt(key, iv, ciphertext)
       IN  IF decryptedBuffer.ok THEN Returned(TextDecode(decryptedBuffer.val))
           ELSE Thrown

\* ---- encryptData then decryptData on one blob ----
\* The arguments are drawn once; Encrypt produces the blob, Decrypt is handed
\* the blob (as produced, or changed on the way) and a key.
CodeUnits == {65, 233, 8364, 55357, 56832, 65279}
CodecPlaintexts == UNION {[1..n -> CodeUnits] : n \in 0..2}
ShortPlaintexts == {<<>>, <<65>>, <<65, 65>>}
CodecKeys == {deriveKey(Pw1, 1), deriveKey(Wrong, 1)}
CodecIVs == {[i \in 1..12 |-> 0], [i \in 1..12 |-> (21 * i) % 256]}
MaxBlobBytes == 30
MaxBlobChars == 40
Changes ==
  {<<"none", 0>>, <<"key", 0>>, <<"unpad", 0>>, <<"space", 0>>}
    \cup {<<"byte", i>> : i \in 1..MaxBlobBytes}
    \cup {<<"char", i>> : i \in 1..MaxBlobChars}

OtherKey(key) == CHOOSE k \in CodecKeys : k # key

\* the blob as decryptData receives it
Changed(blob, change) ==
  LET bytes == atob(blob).val IN
  CASE change[1] = "byte" ->
         btoa([bytes EXCEPT ![change[2]] = (@ + 1) % 256])
    [] change[1] = "char" ->
         [blob EXCEPT ![change[2]] = B64Char((B64Value(@) + 1) % 64)]
    [] change[1] = "unpad" -> SelectSeq(blob, LAMBDA c : c # 61)
    [] change[1] = "space" -> blob \o <<10>>
    [] OTHER -> blob

Applies(blob, change) ==
  CASE change[1] = "byte" -> change[2] <= Len(atob(blob).val)
    [] change[1] = "char" -> change[2] <= Len(blob) /\ blob[change[2]] # 61
    [] OTHER -> TRUE

Encrypt ==
  /\ call.fn = "none"
  /\ call.in # <<>>
  /\ call.in[1] = "codec"
  /\ call' = [fn |-> "encryptData", in |-> call.in,
              out |-> encryptDataBytes(call.in[2], call.in[3], call.in[4])]
  /\ UNCHANGED <<db, ls, masterCryptoKey, masterPasswordForMigration, last,
                 account, scen, setBy, authed, salts, inflight, vectorStore,
                 appData, authState>>

Decrypt ==
  /\ call.fn = "encryptData"
  /\ Applies(call.out, call.in[5])
  /\ LET given == Changed(call.out, call.in[5])
         key == IF call.in[5][1] = "key" THEN OtherKey(call.in[3]) ELSE call.in[3]
     IN  call' = [fn |-> "decryptData", in |-> call.in,
                  out |-> [blob |-> call.out, given |-> given, key |-> key,
                           res |-> decryptDataBytes(given, key)]]
  /\ UNCHANGED <<db, ls, masterCryptoKey, masterPasswordForMigration, last,
                 account, scen, setBy, authed, salts, inflight, vectorStore,
                 appData, authState>>

CodecInit ==
  /\ \E p \in CodecPlaintexts, k \in CodecKeys, iv \in CodecIVs, c \in Changes :
       /\ c[1] # "none" => p \in ShortPlaintexts /\ iv = [i \in 1..12 |-> (21 * i) % 256]
       /\ call = Args(<<"codec", p, k, iv, c>>)
  /\ Idle

CodecSpec == CodecInit /\ [][Encrypt \/ Decrypt]_vars

\* A string TextEncoder and TextDecoder carry unchanged: every surrogate is
\* half of a pair, and the first code unit is not U+FEFF.
WellFormed(str) ==
  \A i \in 1..Len(str) :
    /\ IsHighSurrogate(str[i]) => (i < Len(str) /\ IsLowSurrogate(str[i + 1]))
    /\ IsLowSurrogate(str[i]) => (i > 1 /\ IsHighSurrogate(str[i - 1]))

Portable(str) == WellFormed(str) /\ (str = <<>> \/ str[1] # 65279)

Unchanged == call.fn = "decryptData" /\ call.in[5][1] = "none"

\* C14 as stated: for every plaintext p and key k, decrypt(encrypt(p, k), k)
\* returns p.
C14_Original == Unchanged => call.out.res = Returned(call.in[2])

\* C14: the blob is the base64 text of the 12-byte nonce followed by the
\* ciphertext and its 16-byte tag, decryption takes the nonce from the first
\* 12 decoded bytes, and decrypt(encrypt(p, k), k) returns p for every string
\* p that is well-formed UTF-16 and does not begin with U+FEFF; for any other
\* string it returns what UTF-8 encoding and decoding make of p.
C14_RoundTripWithFraming ==
  Unchanged =>
    LET p == call.in[2]
        bytes == atob(call.out.blob)
    IN  /\ bytes.ok
        /\ call.out.blob = btoa(bytes.val)
        /\ Len(bytes.val) = 12 + Len(TextEncode(p)) + 16
        /\ SubSeq(bytes.val, 1, 12) = call.in[4]
        /\ SubSeq(bytes.val, 13, Len(bytes.val))
             = subtleEncrypt(call.in[3], call.in[4], TextEncode(p))
        /\ call.out.res = Returned(TextDecode(TextEncode(p)))
        /\ Portable(p) => call.out.res = Returned(p)

C14_Witness ==
  /\ Unchanged
  /\ call.in[2] = <<55357, 56832>>
  /\ call.in[4][2] = 42
  /\ call.out.res = Returned(<<55357, 56832>>)

\* C15 as stated: decrypting under a different key, or a blob of which any
\* byte was changed, raises.
C15_Original ==
  (call.fn = "decryptData" /\ (call.out.key # call.in[3] \/ call.out.given # call.out.blob))
    => ~call.out.res.ok

\* C15: decrypting under a different key, or a blob whose base64 text
\* decodes to other bytes than the blob encryptData produced, raises and
\* returns no plaintext; a blob whose text was changed but decodes to the
\* same bytes is decrypted as the original is.
C15_AuthenticatedDecryption ==
  call.fn = "decryptData" =>
    LET was == atob(call.out.blob)
        now == atob(call.out.given)
    IN  IF call.out.key # call.in[3] \/ now # was
        THEN call.out.res = Thrown
        ELSE call.out.res = Returned(TextDecode(TextEncode(call.in[2])))

C15_Witness ==
  /\ call.fn = "decryptData"
  /\ call.in[5] = <<"byte", 13>>
  /\ call.out.given # call.out.blob
  /\ call.out.res = Thrown

\* ---- the nonces of the encryptions ----
\* getRandomValues(new Uint8Array(12)) returns 12 random bytes; as for the
\* salt, each draw is taken to be a value never returned before.  call.in
\* counts the draws made so far, and the draws of a handler are the next
\* numbers after it.
MaxDraws == 4
Drawn == call.in
NthDraw(n) == Drawn + n

NonceSetPassword ==
  \E p \in {Pw1, Wrong} :
    \E o \in {setMasterPassword(Cur, p, FreshSalt, NthDraw(1), "none")} :
    /\ salts < MaxSalts /\ Drawn + 1 <= MaxDraws
    /\ salts' = salts + 1
    /\ Effect("set", o)
    /\ call' = [call EXCEPT !.in = Drawn + 1]
    /\ scen' = Off
    /\ setBy' = IF account.kind = "new" /\ o.res = RetVoid THEN p ELSE NoPass
    /\ authed' = (authed \/ o.res = RetVoid)

NonceSaveData ==
  \E d \in Docs :
    \E o \in {saveData(Cur, d, NthDraw(1), "none")} :
    LET draws == IF o.res = RetVoid THEN 1 ELSE 0 IN
    /\ Drawn + draws <= MaxDraws
    /\ Effect("save", o)
    /\ call' = [call EXCEPT !.in = Drawn + draws]
    /\ scen' = Off
    /\ UNCHANGED <<setBy, authed, salts>>

NonceLoadData ==
  \E o \in {loadData(Cur, FreshSalt, NthDraw(1), NthDraw(2), "none")} :
    LET upgrade == o.path \in {"upgraded", "upgrade_failed", "crash"}
        draws == IF upgrade THEN 2 ELSE 0
    IN
    /\ upgrade => salts < MaxSalts
    /\ Drawn + draws <= MaxDraws
    /\ salts' = IF upgrade THEN salts + 1 ELSE salts
    /\ Effect("load", o)
    /\ call' = [call EXCEPT !.in = Drawn + draws]
    /\ scen' = Off
    /\ UNCHANGED <<setBy, authed>>

NonceVerifyPassword ==
  \E p \in {Pw1, Wrong} :
    \E o \in {verifyMasterPassword(Cur, p, "none")} :
    /\ Effect("verify", o)
    /\ scen' = Off
    /\ authed' = (authed \/ o.res = RetBool(TRUE))
    /\ UNCHANGED <<setBy, salts, call>>

NonceInit ==
  /\ call = [fn |-> "getRandomValues", in |-> 0, out |-> <<>>]
  /\ inflight = NoCalls
  /\ vectorStore = NoChunks /\ appData = NoAppData /\ authState = NoAuth
  /\ masterCryptoKey = NoKey
  /\ masterPasswordForMigration = NoPass
  /\ last = [op |-> "start", res |-> RetVoid, path |-> "ret", fault |-> "none"]
  /\ setBy = NoPass /\ authed = FALSE /\ salts = 0 /\ scen = Off
  /\ db = EmptyStore
  /\ \/ /\ account = [kind |-> "new", pass |-> NoPass, doc |-> Undef, intact |-> FALSE]
        /\ ls = EmptyStore
     \/ /\ account = [kind |-> "legacy", pass |-> Pw1, doc |-> DocTable[2].json,
                      intact |-> TRUE]
        /\ ls = LegacyStore(Pw1, DocTable[2].json, legacyEncrypt(Sentinel, Pw1))

NonceNext ==
  \/ NonceSetPassword
  \/ NonceVerifyPassword
  \/ NonceSaveData
  \/ NonceLoadData
  \/ Reload

NonceSpec == NonceInit /\ [][NonceNext]_vars

\* The blobs a step wrote under AES-GCM.
Written ==
  {f \in {"verifier", "data"} : db'[f] # db[f] /\ db'[f].t = "gcm"}

\* C16: every blob that setMasterPassword, the security upgrade of loadData
\* or saveData writes carries a nonce drawn during that call, one that no
\* earlier encryption used and that no store held; the two blobs the
\* security upgrade writes carry different nonces; so no two blobs in the
\* store that are under the same key carry the same nonce.
C16_NonceUniqueness ==
  [][ /\ \A f \in Written :
           /\ db'[f].iv > Drawn
           /\ db'[f].iv <= call'.in
           /\ \A g \in {"verifier", "data"} :
                (db[g].t = "gcm" /\ db[g].k = db'[f].k) => db[g].iv # db'[f].iv
      /\ (Written = {"verifier", "data"} /\ db'.verifier.k = db'.data.k)
           => db'.verifier.iv # db'.data.iv ]_vars

\* C16 witness: a saveData after the security upgrade; three nonces were
\* drawn and the blob carries the third.
C16_Witness ==
  /\ call.fn = "getRandomValues" /\ account.kind = "legacy"
  /\ last.op = "save" /\ last.res = RetVoid
  /\ db.verifier.t = "gcm" /\ db.verifier.iv = 1
  /\ db.data.t = "gcm" /\ db.data.iv = 3 /\ db.data.k = db.verifier.k

\* ---- what the stores hold ----
StoreKeys == {"data", "verifier", "salt"}
StoredValues == {db[f] : f \in StoreKeys} \cup {ls[f] : f \in StoreKeys}
Secrets ==
  Passphrases \cup {DocTable[i].text : i \in 1..Len(DocTable)}
    \cup {JSONstringify(d) : d \in Docs}

\* C17: in every reachable state each value in localStorage and in IndexedDB
\* is absent, a salt, an AES-GCM blob, a blob of the XOR cipher or a string
\* that decodes to nothing; none is a passphrase or the text of a document.
\* (The k of an AES-GCM blob names the key the blob opens under; it is not
\* part of the stored string.)
C17_PassphraseNeverPersisted ==
  \A v \in StoredValues :
    /\ v.t \in {"none", "junk", "salt", "gcm", "xor"}
    /\ v.t = "xor" => v.bytes \notin Secrets

\* C17 witness: setMasterPassword and saveData completed, the passphrase is
\* held in memory, and the store holds a salt and two AES-GCM blobs.
C17_Witness ==
  /\ last.op = "save" /\ last.res = RetVoid
  /\ masterPasswordForMigration \in Passphrases
  /\ db.salt.t = "salt" /\ db.verifier.t = "gcm" /\ db.data.t = "gcm"
  /\ db.verifier.k.p = masterPasswordForMigration

\* ---- the validation of loadData on its own ----
\* rawData is drawn once: a value that is no object, or an object with one of
\* the four collections set to a value of CollectionValues.
MaxElems == 2
Elements ==
  { JNull, JObj(<<>>), JObj([id |-> JStr("s1")]), JStr("x"), JNum(0), JNum(1),
    JBool(TRUE), JArr(<<>>),
    JObj([id |-> JStr("s2"), characterId |-> JStr("c2")]),
    JObj([id |-> JStr("s3"), messages |-> JArr(<<JStr("hi")>>)]) }
CollectionValues ==
  {Undef, JNull, JStr("x"), JNum(1), JObj(<<>>)}
    \cup {JArr(a) : a \in UNION {[1..n -> Elements] : n \in 0..MaxElems}}
CollectionNames == {"characters", "chatSessions", "plugins", "lorebooks"}
Bases ==
  { JObj(<<>>),
    JObj([characters |-> JArr(<<JObj([id |-> JStr("c2"), name |-> JStr("Bo")])>>),
          userKeys |-> JObj([openai |-> JStr("k")])]) }
WithField(base, f, c) == IF c = Undef THEN base ELSE JObj((f :> c) @@ base.o)
RawValues ==
  { JNull, JBool(TRUE), JBool(FALSE), JNum(0), JNum(7), JStr(""), JStr("x"),
    JArr(<<>>), JArr(<<JObj([id |-> JStr("s1")])>>), DocTable[3].json }
    \cup {WithField(b, f, c) : b \in Bases, f \in CollectionNames,
                               c \in CollectionValues}

Validate ==
  /\ call.fn = "none"
  /\ call' = [fn |-> "loadData", in |-> call.in, out |-> validated(call.in[1])]
  /\ UNCHANGED <<db, ls, masterCryptoKey, masterPasswordForMigration, last,
                 account, scen, setBy, authed, salts, inflight, vectorStore,
                 appData, authState>>

ValidatorInit ==
  /\ \E rawData \in RawValues : call = Args(<<rawData>>)
  /\ Idle

ValidatorSpec == ValidatorInit /\ [][Validate]_vars

Sanitized == call.fn = "loadData" /\ call.out.sanitized

\* The elements of collection f of rawData, when it is an array.
Given(f) ==
  LET c == Get(call.in[1], f) IN IF c.t = "arr" THEN c.a ELSE <<>>

\* C18 as stated: each collection comes back as an array without null and
\* without {}, all of whose elements are elements of the array given, as
\* they were; a collection that is no array comes back empty.
C18_Original ==
  Sanitized =>
    \A f \in CollectionNames :
      LET out == call.out.d.o[f] IN
      /\ out.t = "arr"
      /\ Get(call.in[1], f).t # "arr" => out.a = <<>>
      /\ \A i \in 1..Len(out.a) :
           /\ out.a[i] \notin {JNull, JObj(<<>>)}
           /\ \E j \in 1..Len(Given(f)) : Given(f)[j] = out.a[i]

\* the session format of earlier releases: characterId and no characterIds
IsLegacySession(e) ==
  Truthy(Get(e, "characterId")) /\ ~Truthy(Get(e, "characterIds"))

\* C18: sanitization never raises; a collection that is no array becomes the
\* empty array; from an array, null and every element that is no object
\* (string, number, boolean) are removed, and objects, the empty object {}
\* and arrays among them, are kept in their order.  The kept elements of
\* characters, plugins and lorebooks are returned as they were.  A kept
\* element of chatSessions in the earlier single-character format is
\* rewritten with characterIds; any other is returned as it was when its
\* messages are an array and with messages set to [] when they are not.  So
\* chatSessions [{}, null, {id:"s1"}] becomes
\* [{messages:[]}, {id:"s1", messages:[]}].
C18_SanitizedCollections ==
  Sanitized =>
    /\ call.out.d.t = "obj"
    /\ \A f \in CollectionNames :
         LET out == call.out.d.o[f]
             kept == SelectSeq(Given(f), LAMBDA e : e.t \in {"obj", "arr"})
         IN
         /\ out.t = "arr"
         /\ Len(out.a) = Len(kept)
         /\ f # "chatSessions" => out.a = kept
         /\ f = "chatSessions" =>
              \A i \in 1..Len(kept) :
                LET e == kept[i]
                    r == out.a[i]
                IN  IF IsLegacySession(e)
                    THEN /\ Get(r, "id") = Get(e, "id")
                         /\ Get(r, "characterIds") = JArr(<<Get(e, "characterId")>>)
                         /\ Get(r, "messages").t = "arr"
                    ELSE IF Get(e, "messages").t = "arr" \/ e.t = "arr"
                    THEN r = e
                    ELSE r = JObj(("messages" :> JArr(<<>>)) @@ e.o)
    /\ call.in[1] = DocTable[3].json =>
         /\ call.out.d.o.characters = JArr(<<>>)
         /\ call.out.d.o.chatSessions
              = JArr(<< JObj([messages |-> JArr(<<>>)]),
                        JObj([id |-> JStr("s1"), messages |-> JArr(<<>>)]) >>)

\* C18 witness: the validation was applied to
\* {characters: "x", chatSessions: [{}, null, {id:"s1"}]}.
C18_Witness ==
  /\ Sanitized
  /\ call.in[1] = DocTable[3].json
  /\ Len(call.out.d.o.chatSessions.a) = 2

\* C19: when the value parsed from the payload is no object (null, a
\* boolean, a number, a string or an array), loadData returns the default
\* dataset and the value does not reach the sanitization.
C19_NonObjectRejected ==
  (call.fn = "loadData" /\ call.in[1].t # "obj")
    => (~call.out.sanitized /\ call.out.d = emptyData)

\* ---- createCanonicalString (cryptoService) ----
\* An object with its properties in insertion order: <<key, value>> pairs,
\* keys and strings as sequences of UTF-16 code units.
JRec(props) == [t |-> "rec", props |-> props]

RECURSIVE Digits(_)
Digits(n) == IF n < 10 THEN <<48 + n>> ELSE Digits(n \div 10) \o <<48 + (n % 10)>>

RECURSIVE JoinTexts(_, _)
JoinTexts(texts, sep) ==
  IF texts = <<>> THEN <<>>
  ELSE IF Len(texts) = 1 THEN texts[1]
  ELSE texts[1] \o sep \o JoinTexts(Tail(texts), sep)

NullText == <<110, 117, 108, 108>>
BoolText(b) == IF b THEN <<116, 114, 117, 101>> ELSE <<102, 97, 108, 115, 101>>
Quoted(str) == <<34>> \o str \o <<34>>

\* JSON.stringify(v) for an object or array v: properties in insertion
\* order, undefined properties left out, undefined array elements as null.
RECURSIVE stringify(_)
stringify(v) ==
  CASE v.t = "num" -> Digits(v.n)
    [] v.t = "bool" -> BoolText(v.b)
    [] v.t = "str" -> Quoted(v.s)
    [] v.t = "arr" ->
         <<91>> \o JoinTexts([i \in 1..Len(v.a) |-> stringify(v.a[i])], <<44>>)
                \o <<93>>
    [] v.t = "rec" ->
         LET own == SelectSeq(v.props, LAMBDA kv : kv[2].t # "undef") IN
         <<123>> \o JoinTexts([i \in 1..Len(own) |->
                                 Quoted(own[i][1]) \o <<58>> \o stringify(own[i][2])],
                              <<44>>)
                 \o <<125>>
    [] OTHER -> NullText

\* `${value}` for a value that is no object
TemplateText(v) ==
  CASE v.t = "num" -> Digits(v.n)
    [] v.t = "bool" -> BoolText(v.b)
    [] OTHER -> v.s

\* a < b for strings: by UTF-16 code units, as Array.prototype.sort compares
RECURSIVE Less(_, _)
Less(a, b) ==
  IF a = <<>> THEN b # <<>>
  ELSE IF b = <<>> THEN FALSE
  ELSE IF a[1] # b[1] THEN a[1] < b[1]
  ELSE Less(Tail(a), Tail(b))

RECURSIVE SortKeys(_)
SortKeys(K) ==
  IF K = {} THEN <<>>
  ELSE LET first == CHOOSE k \in K : \A o \in K \ {k} : Less(k, o)
       IN  <<first>> \o SortKeys(K \ {first})

\* Object.keys(obj)
ObjectKeys(obj) == [i \in 1..Len(obj.props) |-> obj.props[i][1]]

\* obj[key]
Prop(obj, key) ==
  obj.props[CHOOSE i \in 1..Len(obj.props) : obj.props[i][1] = key][2]

CanonicalEntry(obj, key) ==
  LET v == Prop(obj, key) IN
  IF v.t \in {"undef", "null"} THEN key \o <<58>> \o NullText
  ELSE key \o <<58>>
           \o (IF v.t \in {"rec", "arr"} THEN stringify(v) ELSE TemplateText(v))

\* Mutant: the keys are taken in insertion order.
createCanonicalString_NoSort(obj) ==
  LET keys == ObjectKeys(obj) IN
  JoinTexts([i \in 1..Len(keys) |-> CanonicalEntry(obj, keys[i])], <<124>>)

createCanonicalString(obj) ==
  LET keys == ObjectKeys(obj)
      sorted == SortKeys({keys[i] : i \in 1..Len(keys)})
  IN  JoinTexts([i \in 1..Len(sorted) |-> CanonicalEntry(obj, sorted[i])], <<124>>)

\* The records given: up to MaxKeys properties with distinct keys, and the
\* same properties inserted in another order.
MaxKeys == 3
CanonKeys == {<<97>>, <<97, 98>>, <<66>>}      \* "a", "ab", "B"
CanonValues ==
  { JNum(1), JNum(20), JNull, JStr(<<120>>),
    JRec(<< <<<<121>>, JNum(1)>>, <<<<120>>, Undef>>, <<<<119>>, JArr(<<JBool(TRUE)>>)>> >>) }
Orders(n) == {f \in [1..n -> 1..n] : \A i, j \in 1..n : f[i] = f[j] => i = j}
CanonRecords ==
  UNION { { JRec([i \in 1..n |-> <<ks[i], vs[i]>>]) :
              ks \in {k \in [1..n -> CanonKeys] :
                        \A i, j \in 1..n : k[i] = k[j] => i = j},
              vs \in [1..n -> CanonValues] } :
          n \in 0..MaxKeys }
Reordered(obj, order) == JRec([i \in 1..Len(obj.props) |-> obj.props[order[i]]])

Canonicalize ==
  /\ call.fn = "none"
  /\ call' = [fn |-> "createCanonicalString", in |-> call.in,
              out |-> <<createCanonicalString(call.in[1]),
                        createCanonicalString(call.in[2])>>]
  /\ UNCHANGED <<db, ls, masterCryptoKey, masterPasswordForMigration, last,
                 account, scen, setBy, authed, salts, inflight, vectorStore,
                 appData, authState>>

CanonInit ==
  /\ \E obj \in CanonRecords :
       \E order \in Orders(Len(obj.props)) :
         call = Args(<<obj, Reordered(obj, order)>>)
  /\ Idle

CanonSpec == CanonInit /\ [][Canonicalize]_vars

\* C20: two records with the same top-level key/value pairs, inserted in
\* whatever order, are given the same string by createCanonicalString.
C20_InsertionOrderIndependent ==
  call.fn = "createCanonicalString" =>
    /\ {call.in[1].props[i] : i \in 1..Len(call.in[1].props)}
         = {call.in[2].props[i] : i \in 1..Len(call.in[2].props)}
    /\ call.out[1] = call.out[2]

\* C20 witness: {a:1, B:20} and {B:20, a:1} both gave "B:20|a:1".
C20_Witness ==
  /\ call.fn = "createCanonicalString"
  /\ call.in[1] = JRec(<< <<<<97>>, JNum(1)>>, <<<<66>>, JNum(20)>> >>)
  /\ call.in[2] = JRec(<< <<<<66>>, JNum(20)>>, <<<<97>>, JNum(1)>> >>)
  /\ call.out[1] = <<66, 58, 50, 48, 124, 97, 58, 49>>
  /\ call.out[2] = call.out[1]

\* ---- sign and verify (cryptoService) ----
\* crypto.subtle.sign / verify with ECDSA P-256 and SHA-256 are the
\* platform's.  A stand-in with the same interface: a signature names the
\* keypair that made it and the bytes signed, after one byte standing for
\* the random value ECDSA draws for each signature.
KeyPairs == {1, 2}
subtleSign(privateKey, buffer, random) == <<privateKey, random>> \o buffer
subtleVerify(publicKey, signatureBuffer, buffer) ==
  /\ Len(signatureBuffer) >= 2
  /\ signatureBuffer[1] = publicKey
  /\ SubSeq(signatureBuffer, 3, Len(signatureBuffer)) = buffer

stringToBuffer(str) == TextEncode(str)

sign(data, privateKey, random) ==
  LET buffer == stringToBuffer(data)
      signatureBuffer == subtleSign(privateKey, buffer, random)
  IN  btoa(signatureBuffer)

verify(data, signature, publicKey) ==
  LET buffer == stringToBuffer(data)
      signatureBuffer == atob(signature)
  IN  IF ~signatureBuffer.ok THEN FALSE
      ELSE subtleVerify(publicKey, signatureBuffer.val, buffer)

\* The records signed and verified: no property or one, the value a number,
\* a string or null.
SignedValues == {JNum(1), JStr(<<49>>), JNull, JStr(NullText), JStr(<<120>>)}
SignedRecords ==
  {JRec(<<>>)} \cup {JRec(<< <<k, v>> >>) : k \in CanonKeys, v \in SignedValues}

Sign ==
  /\ call.fn = "none"
  /\ call' = [fn |-> "sign", in |-> call.in,
              out |-> sign(createCanonicalString(call.in[1]), call.in[3], call.in[5])]
  /\ UNCHANGED <<db, ls, masterCryptoKey, masterPasswordForMigration, last,
                 account, scen, setBy, authed, salts, inflight, vectorStore,
                 appData, authState>>

Verify ==
  /\ call.fn = "sign"
  /\ call' = [fn |-> "verify", in |-> call.in,
              out |-> verify(createCanonicalString(call.in[2]), call.out, call.in[4])]
  /\ UNCHANGED <<db, ls, masterCryptoKey, masterPasswordForMigration, last,
                 account, scen, setBy, authed, salts, inflight, vectorStore,
                 appData, authState>>

\* m, m', the keypair that signs, the keypair whose public key verifies,
\* and the random byte of the signature
SignInit ==
  /\ \E m1 \in SignedRecords, m2 \in SignedRecords, priv \in KeyPairs,
        pub \in KeyPairs, random \in {0, 255} :
       call = Args(<<m1, m2, priv, pub, random>>)
  /\ Idle

SignSpec == SignInit /\ [][Sign \/ Verify]_vars

\* C21: verify(canonical string of m', signature of the canonical string of
\* m under priv, pub') returns true when m' = m and pub' is the public key
\* of priv, and false when m' differs from m in a field name or a value, or
\* pub' is the public key of another keypair.
C21_SignatureIntegrity ==
  call.fn = "verify" =>
    (call.out <=> (call.in[2] = call.in[1] /\ call.in[4] = call.in[3]))

\* ---- saveData and loadData calls that overlap ----
\* An async function runs to its next await without interruption; each
\* action below is one such stretch of one call, from the await that has
\* just resolved to the next.  A put or get of IndexedDB takes effect in the
\* stretch that follows its await.
SaveDocs == {DocTable[1].json, DocTable[2].json}

\* the number of writes of the main blob applied so far
BlobWrites ==
  LET S == {inflight[i].seq : i \in CallIds} IN CHOOSE n \in S : \A k \in S : k <= n

Others == <<last, account, scen, setBy, authed, call, vectorStore, appData, authState>>

\* what loadData returns for rawData (lines 420-465)
Finished(c, rawData) ==
  [c EXCEPT !.pc = "done", !.res = RetData(validated(rawData).d)]
GaveUp(c) == [c EXCEPT !.pc = "done", !.res = RetData(emptyData)]

\* Mutant: the text of one fixed document is encrypted, whatever data is.
BeginSave_FixedText(c, data) ==
  IF masterCryptoKey = NoKey
  THEN [c EXCEPT !.pc = "done", !.doc = data, !.res = Raise]
  ELSE [c EXCEPT !.pc = "encrypting", !.doc = data,
                 !.json = DocTable[1].text, !.key = masterCryptoKey]

\* saveData up to its first await: the key check, JSON.stringify, the call
\* of encryptData with the key that is cached now.
BeginSave(c, data) ==
  IF masterCryptoKey = NoKey
  THEN [c EXCEPT !.pc = "done", !.doc = data, !.res = Raise]
  ELSE [c EXCEPT !.pc = "encrypting", !.doc = data,
                 !.json = JSONstringify(data), !.key = masterCryptoKey]

\* the calls invoked so far; inv numbers the calls in the order invoked
Invoked == Cardinality({j \in CallIds : inflight[j].pc # "idle"})

StartSave(i) ==
  \E data \in SaveDocs :
    /\ inflight[i].pc = "idle"
    /\ inflight' = [inflight EXCEPT ![i] =
         BeginSave([@ EXCEPT !.op = "save", !.inv = Invoked + 1], data)]
    /\ UNCHANGED <<db, ls, masterCryptoKey, masterPasswordForMigration, salts, Others>>

\* await encryptData(jsonString, masterCryptoKey) resolved
SaveEncrypted(i) ==
  LET c == inflight[i] IN
  /\ c.pc = "encrypting"
  /\ inflight' = [inflight EXCEPT ![i] =
       [c EXCEPT !.pc = "writing",
                 !.blob = encryptData(c.json, c.key, 1)]]
  /\ UNCHANGED <<db, ls, masterCryptoKey, masterPasswordForMigration, salts, Others>>

\* await setToDB(STORAGE_KEY_DATA, encryptedData) resolved; inside loadData
\* the validation follows.
SaveWritten(i) ==
  LET c == inflight[i]
      c1 == [c EXCEPT !.seq = BlobWrites + 1]
  IN
  /\ c.pc = "writing"
  /\ db' = [db EXCEPT !.data = c.blob]
  /\ inflight' = [inflight EXCEPT ![i] =
       IF c.op = "load" THEN Finished(c1, c.raw)
       ELSE [c1 EXCEPT !.pc = "done", !.res = RetVoid]]
  /\ UNCHANGED <<ls, masterCryptoKey, masterPasswordForMigration, salts, Others>>

\* loadData up to its first await: localStorage.getItem, then getFromDB.
StartLoad(i) ==
  /\ inflight[i].pc = "idle"
  /\ inflight' = [inflight EXCEPT ![i] =
       [@ EXCEPT !.op = "load", !.pc = "reading", !.enc = ls.data,
                 !.inv = Invoked + 1]]
  /\ UNCHANGED <<db, ls, masterCryptoKey, masterPasswordForMigration, salts, Others>>

\* loadData from "if (!encryptedData) return emptyData()" to its next await.
Continue(c, encryptedData) ==
  IF ~Truthy(encryptedData) THEN GaveUp(c)
  ELSE IF masterCryptoKey # NoKey
  THEN [c EXCEPT !.pc = "decrypting", !.enc = encryptedData, !.key = masterCryptoKey]
  ELSE IF masterPasswordForMigration = NoPass THEN GaveUp(c)
  ELSE LET jsonString == legacyDecrypt(encryptedData, masterPasswordForMigration)
           rawData == IF jsonString.ok THEN JSONparse(jsonString.val) ELSE Thrown
       IN  IF ~rawData.ok THEN GaveUp(c)
           ELSE [c EXCEPT !.pc = "deriving", !.raw = rawData.val,
                          !.salt = FreshSalt,
                          !.pass = masterPasswordForMigration]

DrewSalt(c) == IF c.pc = "deriving" THEN 1 ELSE 0

\* await getFromDB(STORAGE_KEY_DATA) resolved
LoadRead(i) ==
  LET c == inflight[i]
      lsData == c.enc
      encryptedData == db.data
      c1 == IF ~Truthy(encryptedData) /\ Truthy(lsData)
            THEN [c EXCEPT !.pc = "moving", !.enc = lsData]
            ELSE Continue(c, encryptedData)
  IN
  /\ c.pc = "reading"
  /\ inflight' = [inflight EXCEPT ![i] = c1]
  /\ salts' = salts + DrewSalt(c1)
  /\ UNCHANGED <<db, ls, masterCryptoKey, masterPasswordForMigration, Others>>

\* await setToDB(STORAGE_KEY_DATA, lsData) resolved, then removeItem
LoadMoved(i) ==
  LET c == inflight[i]
      c1 == Continue(c, c.enc)
  IN
  /\ c.pc = "moving"
  /\ db' = [db EXCEPT !.data = c.enc]
  /\ ls' = [ls EXCEPT !.data = Absent]
  /\ inflight' = [inflight EXCEPT ![i] = c1]
  /\ salts' = salts + DrewSalt(c1)
  /\ UNCHANGED <<masterCryptoKey, masterPasswordForMigration, Others>>

\* await decryptData(encryptedData, masterCryptoKey) resolved or rejected
LoadDecrypted(i) ==
  LET c == inflight[i]
      jsonString == decryptData(c.enc, c.key)
      rawData == IF jsonString.ok THEN JSONparse(jsonString.val) ELSE Thrown
  IN
  /\ c.pc = "decrypting"
  /\ inflight' = [inflight EXCEPT ![i] =
       IF rawData.ok THEN Finished(c, rawData.val) ELSE GaveUp(c)]
  /\ UNCHANGED <<db, ls, masterCryptoKey, masterPasswordForMigration, salts, Others>>

\* await deriveKey(masterPasswordForMigration, newSalt) resolved
LoadDerived(i) ==
  LET c == inflight[i]
      newKey == deriveKey(c.pass, c.salt)
  IN
  /\ c.pc = "deriving"
  /\ masterCryptoKey' = newKey
  /\ inflight' = [inflight EXCEPT ![i] = [c EXCEPT !.pc = "encrypting_verifier",
                                                   !.key = newKey]]
  /\ UNCHANGED <<db, ls, masterPasswordForMigration, salts, Others>>

\* await encryptData('password_is_correct', newKey) resolved
LoadVerifierEncrypted(i) ==
  LET c == inflight[i] IN
  /\ c.pc = "encrypting_verifier"
  /\ inflight' = [inflight EXCEPT ![i] =
       [c EXCEPT !.pc = "writing_salt", !.blob = encryptData(Sentinel, c.key, 1)]]
  /\ UNCHANGED <<db, ls, masterCryptoKey, masterPasswordForMigration, salts, Others>>

\* await setToDB(STORAGE_KEY_SALT, newSalt) resolved
LoadSaltWritten(i) ==
  LET c == inflight[i] IN
  /\ c.pc = "writing_salt"
  /\ db' = [db EXCEPT !.salt = SaltVal(c.salt)]
  /\ inflight' = [inflight EXCEPT ![i] = [c EXCEPT !.pc = "writing_verifier"]]
  /\ UNCHANGED <<ls, masterCryptoKey, masterPasswordForMigration, salts, Others>>

\* await setToDB(STORAGE_KEY_PASS_VERIFIER, newVerifier) resolved, then
\* saveData(rawData) up to its first await
LoadVerifierWritten(i) ==
  LET c == inflight[i] IN
  /\ c.pc = "writing_verifier"
  /\ db' = [db EXCEPT !.verifier = c.blob]
  /\ inflight' = [inflight EXCEPT ![i] = BeginSave(c, c.raw)]
  /\ UNCHANGED <<ls, masterCryptoKey, masterPasswordForMigration, salts, Others>>

\* An account made by setMasterPassword(Pw1) in this session, or a legacy
\* account on which verifyMasterPassword(Pw1) has returned true.
AsyncInit ==
  /\ call = NoCall /\ inflight = NoCalls /\ vectorStore = NoChunks /\ appData = NoAppData /\ authState = NoAuth
  /\ scen = Off /\ setBy = NoPass /\ authed = TRUE
  /\ \/ LET o == setMasterPassword(
                   [db |-> EmptyStore, ls |-> EmptyStore, key |-> NoKey,
                    mpass |-> NoPass], Pw1, 1, 1, "none")
        IN  /\ account = [kind |-> "new", pass |-> NoPass, doc |-> Undef,
                          intact |-> FALSE]
            /\ db = o.S.db /\ ls = o.S.ls
            /\ masterCryptoKey = o.S.key
            /\ masterPasswordForMigration = o.S.mpass
            /\ last = [op |-> "set", res |-> o.res, path |-> o.path, fault |-> o.fault]
            /\ salts = 1
     \/ LET store == LegacyStore(Pw1, DocTable[2].json, legacyEncrypt(Sentinel, Pw1))
            o == verifyMasterPassword(
                   [db |-> EmptyStore, ls |-> store, key |-> NoKey,
                    mpass |-> NoPass], Pw1, "none")
        IN  /\ account = [kind |-> "legacy", pass |-> Pw1, doc |-> DocTable[2].json,
                          intact |-> TRUE]
            /\ db = o.S.db /\ ls = o.S.ls
            /\ masterCryptoKey = o.S.key
            /\ masterPasswordForMigration = o.S.mpass
            /\ last = [op |-> "verify", res |-> o.res, path |-> o.path,
                       fault |-> o.fault]
            /\ salts = 0

AsyncNext ==
  \E i \in CallIds :
    \/ StartSave(i)
    \/ SaveEncrypted(i)
    \/ SaveWritten(i)
    \/ StartLoad(i)
    \/ LoadRead(i)
    \/ LoadMoved(i)
    \/ LoadDecrypted(i)
    \/ LoadDerived(i)
    \/ LoadVerifierEncrypted(i)
    \/ LoadSaltWritten(i)
    \/ LoadVerifierWritten(i)

AsyncSpec == AsyncInit /\ [][AsyncNext]_vars

\* Every call made has returned.
Settled == \A i \in CallIds : inflight[i].pc \in {"idle", "done"}
OnlySaves == \A i \in CallIds : inflight[i].op \in {"none", "save"}
OnlyLoads == \A i \in CallIds : inflight[i].op = "load"

\* the call whose write of the main blob was applied last
LastWriter == CHOOSE i \in CallIds : inflight[i].seq = BlobWrites

\* C22: when saveData calls that overlap have all returned, the persisted
\* blob is the blob of the call whose write was applied last, and it
\* decrypts under the session key to the text of that call's document.
C22_LastWriteWins ==
  (Settled /\ OnlySaves /\ BlobWrites > 0) =>
    /\ db.data = inflight[LastWriter].blob
    /\ decryptData(db.data, masterCryptoKey)
         = Returned(JSONstringify(inflight[LastWriter].doc))

\* C22 witness: two saveData calls with different documents overlapped, the
\* second to write began before the first had written, and both returned.
C22_Witness ==
  /\ Settled /\ OnlySaves
  /\ inflight[1].seq = 2 /\ inflight[2].seq = 1
  /\ inflight[1].doc # inflight[2].doc
  /\ decryptData(db.data, masterCryptoKey) = Returned(JSONstringify(inflight[1].doc))

MaxChunks == 2
Chunks ==
  [id : ChunkIds, characterId : {"c1", "c2"}, sourceId : {"s1", "s2"}]

\* store.put(chunk)
put(store, chunk) == [store EXCEPT ![chunk.id] = chunk]

\* Mutant: a chunk whose id is stored already is not written.
RECURSIVE saveVectorChunks_KeepsStored(_, _)
saveVectorChunks_KeepsStored(store, chunks) ==
  IF chunks = <<>> THEN store
  ELSE saveVectorChunks_KeepsStored(
         IF store[Head(chunks).id] = Absent THEN put(store, Head(chunks)) ELSE store,
         Tail(chunks))

\* saveVectorChunks: one transaction, a put for each chunk in turn
RECURSIVE saveVectorChunks(_, _)
saveVectorChunks(store, chunks) ==
  IF chunks = <<>> THEN store
  ELSE saveVectorChunks(put(store, Head(chunks)), Tail(chunks))

\* getVectorChunksByCharacter: index.getAll(characterId), in key order
getVectorChunksByCharacter(store, characterId) ==
  LET ids == SelectSeq(ChunkIdOrder,
               LAMBDA id : store[id] # Absent /\ store[id].characterId = characterId)
  IN  [i \in 1..Len(ids) |-> store[ids[i]]]

\* Mutant: the cursor is not continued after the first delete.
deleteVectorChunksBySource_FirstOnly(store, sourceId) ==
  LET ids == SelectSeq(ChunkIdOrder,
               LAMBDA id : store[id] # Absent /\ store[id].sourceId = sourceId)
  IN  IF ids = <<>> THEN store ELSE [store EXCEPT ![ids[1]] = Absent]

\* deleteVectorChunksBySource: the cursor over IDBKeyRange.only(sourceId),
\* a delete at each position
deleteVectorChunksBySource(store, sourceId) ==
  [id \in ChunkIds |->
     IF store[id] # Absent /\ store[id].sourceId = sourceId THEN Absent
     ELSE store[id]]

VectorFrame ==
  UNCHANGED <<db, ls, masterCryptoKey, masterPasswordForMigration, last,
              account, scen, setBy, authed, salts, inflight, appData, authState>>

\* Each action records the call in call: its arguments, the store it found
\* and what it returned.
SaveVectorChunks ==
  \E chunks \in UNION {[1..n -> Chunks] : n \in 0..MaxChunks} :
    /\ vectorStore' = saveVectorChunks(vectorStore, chunks)
    /\ call' = [fn |-> "saveVectorChunks", in |-> chunks,
                out |-> [before |-> vectorStore, res |-> <<>>]]
    /\ VectorFrame

GetVectorChunksByCharacter ==
  \E characterId \in {"c1", "c2", "c3"} :
    /\ vectorStore' = vectorStore
    /\ call' = [fn |-> "getVectorChunksByCharacter", in |-> characterId,
                out |-> [before |-> vectorStore,
                         res |-> getVectorChunksByCharacter(vectorStore, characterId)]]
    /\ VectorFrame

DeleteVectorChunksBySource ==
  \E sourceId \in {"s1", "s2", "s3"} :
    /\ vectorStore' = deleteVectorChunksBySource(vectorStore, sourceId)
    /\ call' = [fn |-> "deleteVectorChunksBySource", in |-> sourceId,
                out |-> [before |-> vectorStore, res |-> <<>>]]
    /\ VectorFrame

VectorInit == call = NoCall /\ Idle

VectorNext ==
  \/ SaveVectorChunks
  \/ GetVectorChunksByCharacter
  \/ DeleteVectorChunksBySource

VectorSpec == VectorInit /\ [][VectorNext]_vars

\* the chunks stored
Stored(store) == {store[id] : id \in ChunkIds} \ {Absent}

\* C24: after saveVectorChunks(chunks) the store holds one chunk at most
\* under each id, each id of chunks holds the chunk that comes last in
\* chunks with that id, and every other id holds what it held; and
\* getVectorChunksByCharacter(c) returns the stored chunks whose characterId
\* is c, each once, and no other.
C24_UpsertAndLookup ==
  /\ \A id \in ChunkIds : vectorStore[id] # Absent => vectorStore[id].id = id
  /\ call.fn = "saveVectorChunks" =>
       \A id \in ChunkIds :
         LET at == {i \in 1..Len(call.in) : call.in[i].id = id} IN
         IF at = {} THEN vectorStore[id] = call.out.before[id]
         ELSE vectorStore[id] = call.in[CHOOSE i \in at : \A j \in at : j <= i]
  /\ call.fn = "getVectorChunksByCharacter" =>
       /\ {call.out.res[i] : i \in 1..Len(call.out.res)}
            = {c \in Stored(vectorStore) : c.characterId = call.in}
       /\ \A i, j \in 1..Len(call.out.res) :
            call.out.res[i] = call.out.res[j] => i = j

\* C24 witness: two chunks with one id were saved over a stored chunk of
\* that id; the store holds the second.
C24_Witness ==
  /\ call.fn = "saveVectorChunks"
  /\ Len(call.in) = 2 /\ call.in[1].id = "k1" /\ call.in[2].id = "k1"
  /\ call.in[1] # call.in[2]
  /\ call.out.before["k1"] \notin {Absent, call.in[2]}
  /\ call.out.before["k2"] # Absent
  /\ vectorStore["k1"] = call.in[2]

\* C25: after deleteVectorChunksBySource(s) no stored chunk has sourceId s,
\* and every chunk with another sourceId is stored as it was.
C25_DeleteBySource ==
  call.fn = "deleteVectorChunksBySource" =>
    /\ \A c \in Stored(vectorStore) : c.sourceId # call.in
    /\ \A id \in ChunkIds :
         (call.out.before[id] # Absent /\ call.out.before[id].sourceId # call.in)
           => vectorStore[id] = call.out.before[id]
    /\ Stored(vectorStore) \subseteq Stored(call.out.before)

\* C25 witness: two chunks of the source were stored and both are gone.
C25_Witness ==
  /\ call.fn = "deleteVectorChunksBySource" /\ call.in = "s1"
  /\ \A id \in ChunkIds :
       call.out.before[id] # Absent /\ call.out.before[id].sourceId = "s1"
  /\ Stored(vectorStore) = {}

\* ---- signing keypairs in the application (App.tsx) ----
\* generateSigningKeyPair returns a keypair never returned before: keypairs
\* are numbered in the order generated, call.in counts them.  A dataset
\* stands for its own JSON text in the blob saveData writes.
MaxKeyPairs == 7
KeyPairsMade == call.in

\* what loadData returns: the dataset of the blob, the default dataset when
\* there is no blob or when reading or decrypting fails
LoadedData(readOk) ==
  IF ~readOk \/ db.data = Absent THEN NoAppData
  ELSE LET d == decryptData(db.data, masterCryptoKey)
       IN  IF d.ok THEN d.val ELSE NoAppData

\* persistData(data): saveData(data) with the key cached
PersistData(data) == db' = [db EXCEPT !.data = encryptData(data, masterCryptoKey, 1)]

KeyFrame ==
  UNCHANGED <<ls, masterCryptoKey, masterPasswordForMigration, last, account,
              scen, setBy, authed, salts, inflight, vectorStore, authState>>

LoadInitialData ==
  \E readOk \in BOOLEAN :
    LET data == LoadedData(readOk)
        generate == data.userKeys = 0
        withKeys == IF generate THEN [data EXCEPT !.userKeys = KeyPairsMade + 1]
                    ELSE data
        withPlugins == [withKeys EXCEPT !.plugins = TRUE]
        dataNeedsSave == generate \/ ~data.plugins
    IN
    /\ generate => KeyPairsMade < MaxKeyPairs
    /\ IF dataNeedsSave THEN PersistData(withPlugins) ELSE db' = db
    /\ appData' = withPlugins
    /\ call' = [fn |-> "loadInitialData",
                in |-> IF generate THEN KeyPairsMade + 1 ELSE KeyPairsMade,
                out |-> data]
    /\ KeyFrame

\* The character saved by the character form, shown once the initial load
\* has set appData: an existing one as appData holds it, or a new one, which
\* has no keys.
HandleSaveCharacter ==
  \E id \in CharacterIds :
    LET isNew == appData.characters[id] = Absent
        character == IF isNew THEN [keys |-> 0] ELSE appData.characters[id]
        generate == isNew \/ character.keys = 0
        updatedCharacter ==
          IF generate THEN [character EXCEPT !.keys = KeyPairsMade + 1] ELSE character
        updatedData == [appData EXCEPT !.characters[id] = updatedCharacter]
    IN
    /\ appData.plugins
    /\ generate => KeyPairsMade < MaxKeyPairs
    /\ appData' = updatedData
    /\ PersistData(updatedData)
    /\ call' = [fn |-> "handleSaveCharacter",
                in |-> IF generate THEN KeyPairsMade + 1 ELSE KeyPairsMade,
                out |-> character]
    /\ KeyFrame

\* The page is loaded again and the user has logged in again.
ReloadApp ==
  /\ appData' = NoAppData
  /\ call' = [fn |-> "reload", in |-> KeyPairsMade, out |-> <<>>]
  /\ db' = db
  /\ KeyFrame

\* An account made by setMasterPassword(Pw1), nothing saved yet.
KeyInit ==
  /\ call = [fn |-> "none", in |-> 0, out |-> <<>>]
  /\ inflight = NoCalls /\ vectorStore = NoChunks /\ appData = NoAppData /\ authState = NoAuth
  /\ scen = Off /\ setBy = NoPass /\ authed = TRUE /\ salts = 1
  /\ account = [kind |-> "new", pass |-> NoPass, doc |-> Undef, intact |-> FALSE]
  /\ LET o == setMasterPassword(
                [db |-> EmptyStore, ls |-> EmptyStore, key |-> NoKey,
                 mpass |-> NoPass], Pw1, 1, 1, "none")
     IN  /\ db = o.S.db /\ ls = o.S.ls
         /\ masterCryptoKey = o.S.key
         /\ masterPasswordForMigration = o.S.mpass
         /\ last = [op |-> "set", res |-> o.res, path |-> o.path, fault |-> o.fault]

KeyNext == LoadInitialData \/ HandleSaveCharacter \/ ReloadApp

KeySpec == KeyInit /\ [][KeyNext]_vars

\* the dataset persisted
Persisted == IF db.data = Absent THEN NoAppData ELSE db.data.pt

\* C26: a keypair is generated for the user only by a loadInitialData whose
\* loaded dataset has none, and for a character only by a handleSaveCharacter
\* of a character without keys; and a keypair persisted for the user or for
\* a character is the keypair persisted for it after every later step.
C26_LazyNeverRotated ==
  [][ /\ call'.in > call.in =>
           \/ call'.fn = "loadInitialData" /\ call'.out.userKeys = 0
           \/ call'.fn = "handleSaveCharacter" /\ call'.out.keys = 0
      /\ Persisted.userKeys # 0 => Persisted'.userKeys = Persisted.userKeys
      /\ \A c \in CharacterIds :
           (Persisted.characters[c] # Absent /\ Persisted.characters[c].keys # 0)
             => Persisted'.characters[c] = Persisted.characters[c] ]_vars

\* ---- order of the security upgrade's writes ----
SaltOf(key) == SaltVal(key.s)
Modern(cell) == cell # Absent /\ cell.t = "gcm"

\* the verifier written under a key follows the salt of that key
SaltBeforeVerifier ==
  (db'.verifier # db.verifier /\ Modern(db'.verifier))
    => db.salt = SaltOf(db'.verifier.k)

\* the blob written under a key follows the verifier under that key
VerifierBeforeBlob ==
  (db'.data # db.data /\ Modern(db'.data))
    => (Modern(db.verifier) /\ db.verifier.k = db'.data.k)

\* the key cached is the key of the salt and the verifier persisted
PersistedBeforeCached ==
  (masterCryptoKey' # masterCryptoKey /\ masterCryptoKey' # NoKey)
    => /\ db.salt = SaltOf(masterCryptoKey')
       /\ Modern(db.verifier) /\ db.verifier.k = masterCryptoKey'

\* one loadData call is under way and no other call has been made
OneLoad ==
  \E i \in CallIds :
    /\ inflight[i].op = "load"
    /\ \A j \in CallIds \ {i} : inflight[j] = NotCalled /\ inflight'[j] = NotCalled

\* C27: in the security upgrade the new salt is persisted before the new
\* verifier, the new verifier before the re-encrypted blob, and the new key
\* is cached only after the new salt and the new verifier are persisted.
C27_UpgradeOrder ==
  [][OneLoad => (SaltBeforeVerifier /\ VerifierBeforeBlob /\ PersistedBeforeCached)]_vars

\* ---- the account after a completed security upgrade ----
\* The legacy account of Init after verifyMasterPassword(Pw1) returned true
\* and loadData ran the whole security upgrade; account.kind records it.
\* The salt of the upgrade is none of the salts drawn afterwards.
UpgradedInit ==
  /\ call = NoCall /\ inflight = NoCalls
  /\ vectorStore = NoChunks /\ appData = NoAppData /\ authState = NoAuth
  /\ scen = Off /\ setBy = NoPass /\ authed = TRUE /\ salts = 0
  /\ account = [kind |-> "upgraded", pass |-> Pw1, doc |-> DocTable[2].json,
                intact |-> TRUE]
  /\ \E store \in {LegacyStore(Pw1, DocTable[2].json, legacyEncrypt(Sentinel, Pw1))} :
     \E v \in {verifyMasterPassword(
                  [db |-> EmptyStore, ls |-> store, key |-> NoKey, mpass |-> NoPass],
                  Pw1, "none")} :
     \E o \in {loadData(v.S, MaxSalts + 1, 1, 1, "none")} :
       /\ db = o.S.db /\ ls = o.S.ls
       /\ masterCryptoKey = o.S.key
       /\ masterPasswordForMigration = o.S.mpass
       /\ last = [op |-> "load", res |-> o.res, path |-> o.path, fault |-> o.fault]

UpgradeSpec == UpgradedInit /\ [][Next]_vars

\* the step is a call of op
Called(op) == last'.op = op /\ last' # last

\* loadData went through its modern branch: it returned the dataset, or
\* failed to decrypt or parse the blob, or rejected what it parsed
ModernPaths == {"modern", "modern_failed", "not_object"}

\* C28: a salt persisted is never removed; on an account whose security
\* upgrade has completed a verifyMasterPassword that reads the store takes
\* the modern path, a loadData of a logged-in session that reads the blob
\* takes the modern path, and no loadData writes a salt or a verifier or
\* runs the upgrade again.
C28_ForwardOnly ==
  [][ /\ db.salt # Absent => db'.salt # Absent
      /\ (account.kind = "upgraded" /\ Called("verify") /\ last'.fault = "none")
           => last'.path = "modern"
      /\ (account.kind = "upgraded" /\ Called("load"))
           => /\ db'.salt = db.salt /\ db'.verifier = db.verifier
              /\ last'.path \notin {"upgraded", "upgrade_failed", "crash"}
              /\ (authed /\ last'.fault = "none") => last'.path \in ModernPaths ]_vars

\* an upgraded account, a later session: verifyMasterPassword returned true
\* and loadData has returned the dataset on the modern path
C28_Witness ==
  /\ account.kind = "upgraded" /\ scen = Off /\ authed
  /\ last.op = "load" /\ last.path = "modern" /\ last.res = RetData(sanitize(account.doc))

\* ---- what loadData persists after verifyMasterPassword ----
\* the blob persisted, in IndexedDB or still in localStorage
StoredBlob == IF db.data # Absent THEN db.data ELSE ls.data

UpgradeWrites ==
  \/ db'.salt # db.salt
  \/ db'.verifier # db.verifier
  \/ Modern(db'.data) /\ db'.data # db.data

\* C29: a loadData that follows a verifyMasterPassword writes a salt, a
\* verifier or a re-encrypted blob only if that call returned true, and
\* after a verifyMasterPassword that returned false it leaves the salt, the
\* verifier and the blob as they were.
C29_UpgradeOnlyAfterLogin ==
  [][ (last.op = "verify" /\ Called("load")) =>
        /\ UpgradeWrites => last.res = RetBool(TRUE)
        /\ last.res = RetBool(FALSE) =>
             /\ db'.salt = db.salt /\ db'.verifier = db.verifier
             /\ StoredBlob' = StoredBlob ]_vars

\* ---- the chat-session migration of loadData on its own ----
\* rawData is drawn once: an object with a characters array and up to
\* MaxSessions chat sessions, each with or without characterId,
\* characterIds, messages and name.
MaxSessions == 2
WithFields(fields) ==
  JObj([k \in {f \in DOMAIN fields : fields[f] # Undef} |-> fields[k]])
SessionObjects ==
  { WithFields([id |-> JStr("s1"), characterId |-> cid, characterIds |-> cids,
                messages |-> msgs, name |-> name]) :
      cid \in {Undef, JStr("c2"), JStr("c9")},
      cids \in {Undef, JArr(<<JStr("c2")>>)},
      msgs \in {Undef, JArr(<<JStr("hi")>>), JStr("x")},
      name \in {Undef, JStr("Old")} }
CharacterLists ==
  { <<>>,
    <<JNull, JObj([id |-> JStr("c2"), name |-> JStr("Bo")])>>,
    <<JObj([id |-> JStr("c2")]), JObj([id |-> JStr("c2"), name |-> JStr("Bo")])>> }
SessionInit ==
  /\ \E chars \in CharacterLists,
        sessions \in UNION {[1..n -> SessionObjects] : n \in 0..MaxSessions} :
       call = Args(<<JObj([characters |-> JArr(chars),
                           chatSessions |-> JArr(sessions)])>>)
  /\ Idle

SessionSpec == SessionInit /\ [][Validate]_vars

\* the messages of a session as returned: kept when an array, else []
MessagesOf(e) ==
  IF Get(e, "messages").t = "arr" THEN Get(e, "messages") ELSE JArr(<<>>)

\* C30: a chat session with a characterId and no characterIds is returned
\* with characterIds = [characterId], its id, its messages when they are an
\* array and [] otherwise, and the name 'Chat with <name>' of a sanitized
\* character with that id, 'Untitled Chat' when there is none; a session
\* with characterIds is returned as it was, apart from messages that are no
\* array, which become [].
C30_SessionMigration ==
  call.fn = "loadData" =>
    /\ call.out.sanitized
    /\ LET given == Given("chatSessions")
           out == call.out.d.o.chatSessions.a
           chars == call.out.d.o.characters.a
           named(cid) == {i \in 1..Len(chars) : Get(chars[i], "id") = cid}
       IN
       /\ Len(out) = Len(given)
       /\ \A i \in 1..Len(given) :
            LET e == given[i]
                r == out[i]
                cid == Get(e, "characterId")
            IN
            /\ (cid # Undef /\ Get(e, "characterIds") = Undef) =>
                 /\ DOMAIN r.o = {"id", "characterIds", "name", "messages"}
                 /\ Get(r, "id") = Get(e, "id")
                 /\ Get(r, "characterIds") = JArr(<<cid>>)
                 /\ Get(r, "messages") = MessagesOf(e)
                 /\ IF named(cid) = {}
                    THEN Get(r, "name") = JStr("Untitled Chat")
                    ELSE \E c \in named(cid) :
                           Get(r, "name") = ChatWith(Get(chars[c], "name"))
            /\ Get(e, "characterIds") # Undef =>
                 /\ Get(r, "messages") = MessagesOf(e)
                 /\ \A k \in (DOMAIN e.o \cup DOMAIN r.o) \ {"messages"} :
                      Get(r, k) = Get(e, k)

\* a session of character c2 in the earlier format, its messages no array,
\* comes back named after the character, and a session with characterIds
\* comes back with its name
C30_Witness ==
  /\ call.fn = "loadData"
  /\ \E i, j \in 1..Len(Given("chatSessions")) :
       LET out == call.out.d.o.chatSessions.a IN
       /\ Get(Given("chatSessions")[i], "characterId") = JStr("c2")
       /\ Get(Given("chatSessions")[i], "messages") = JStr("x")
       /\ Get(out[i], "name") = ChatWith(JStr("Bo"))
       /\ Get(out[i], "messages") = JArr(<<>>)
       /\ Get(Given("chatSessions")[j], "characterIds") # Undef
       /\ Get(out[j], "name") = JStr("Old")

\* ---- what the application signs (App.tsx, ChatInterface) ----
SignatureField == <<115, 105, 103, 110, 97, 116, 117, 114, 101>>
PublicKeyJwkField == <<112, 117, 98, 108, 105, 99, 75, 101, 121, 74, 119, 107>>
UserPublicKeyJwkField ==
  <<117, 115, 101, 114, 80, 117, 98, 108, 105, 99, 75, 101, 121, 74, 119, 107>>
NameField == <<110, 97, 109, 101>>
ContentField == <<99, 111, 110, 116, 101, 110, 116>>

\* the exported public key of a keypair
Jwk(keyPair) == JRec(<< <<<<120>>, JNum(keyPair)>> >>)

\* delete obj[key]
Delete(obj, key) == JRec(SelectSeq(obj.props, LAMBDA kv : kv[1] # key))

\* obj[key] = value: in place when obj has the key, appended otherwise
Assign(obj, key, value) ==
  IF \E i \in 1..Len(obj.props) : obj.props[i][1] = key
  THEN JRec([i \in 1..Len(obj.props) |->
               IF obj.props[i][1] = key THEN <<key, value>> ELSE obj.props[i]])
  ELSE JRec(Append(obj.props, <<key, value>>))

\* createUserMessage and the signing of a model message: the record stored
\* and the string signed
signMessage(message, keyPair, random) ==
  LET withKey == Assign(message, PublicKeyJwkField, Jwk(keyPair))
      dataToSign == Delete(Delete(withKey, SignatureField), PublicKeyJwkField)
      canonicalString == createCanonicalString(dataToSign)
  IN  [record |-> Assign(withKey, SignatureField,
                         JStr(sign(canonicalString, keyPair, random))),
       signed |-> canonicalString]

\* handleSaveCharacter with appData.userKeys: the record stored and the
\* string signed
signCharacter(updatedCharacter, userKeys, random) ==
  LET dataToSign == Delete(updatedCharacter, SignatureField)
      canonicalString == createCanonicalString(dataToSign)
      signature == JStr(sign(canonicalString, userKeys, random))
  IN  [record |-> Assign(Assign(updatedCharacter, SignatureField, signature),
                         UserPublicKeyJwkField, Jwk(userKeys)),
       signed |-> canonicalString]

MaxSaves == 4
Texts == {<<66, 111>>, <<65, 108>>, <<67, 121>>}      \* "Bo", "Al", "Cy"
Randoms == {0, 255}

SigningFrame ==
  UNCHANGED <<db, ls, masterCryptoKey, masterPasswordForMigration, last,
              account, scen, setBy, authed, salts, inflight, vectorStore,
              appData, authState>>

\* The character form saves the character: first the character given, then
\* the character stored, with the name the form holds.
SaveSignedCharacter ==
  \E name \in Texts, random \in Randoms :
    LET first == call.fn = "none"
        character == IF first THEN call.in[1]
                     ELSE Assign(call.out.record, NameField, JStr(name))
        saves == IF first THEN 0 ELSE call.out.saves
    IN
    /\ call.in[2] = "character"
    /\ saves < MaxSaves
    /\ call' = [fn |-> "handleSaveCharacter", in |-> call.in,
                out |-> [saves |-> saves + 1] @@ signCharacter(character, call.in[3], random)]
    /\ SigningFrame

CreateUserMessage ==
  \E random \in Randoms :
    /\ call.fn = "none" /\ call.in[2] = "user"
    /\ call' = [fn |-> "createUserMessage", in |-> call.in,
                out |-> [saves |-> 1] @@ signMessage(call.in[1], call.in[3], random)]
    /\ SigningFrame

SignModelMessage ==
  \E random \in Randoms :
    /\ call.fn = "none" /\ call.in[2] = "model"
    /\ call' = [fn |-> "signModelMessage", in |-> call.in,
                out |-> [saves |-> 1] @@ signMessage(call.in[1], call.in[3], random)]
    /\ SigningFrame

\* the record, who signs it (the user a character or a user message, the
\* character a model message) and the signer's keypair
SigningInit ==
  /\ \E text \in Texts, role \in {"character", "user", "model"}, keyPair \in KeyPairs :
       call = Args(<< JRec(<< <<IF role = "character" THEN NameField ELSE ContentField,
                                JStr(text)>> >>),
                      role, keyPair >>)
  /\ Idle

SigningNext == SaveSignedCharacter \/ CreateUserMessage \/ SignModelMessage

SigningSpec == SigningInit /\ [][SigningNext]_vars

\* the stored record as a verifier canonicalizes it
Verifiable(record) ==
  createCanonicalString(
    Delete(Delete(Delete(record, SignatureField), PublicKeyJwkField),
           UserPublicKeyJwkField))

\* C31: the string signed for a character, a user message or a model
\* message is the canonical string of the stored record without its
\* signature and its signer's public key, on the first save and on every
\* later one.
C31_SigningConvention ==
  call.fn # "none" => call.out.signed = Verifiable(call.out.record)

\* ---- the start-up check and the password form (App.tsx, AuthScreen.tsx) ----
\* inflight[1] is the checkPassword call of App's effect, pending from the
\* mount until hasMasterPassword settles.
FormPasswords ==
  { Pw1, Pw1 \o Pw1 \o Pw1, Wrong \o Wrong }      \* "pw1", "pw1pw1pw1", "wrongwrong"
Mounted == [NoCalls EXCEPT ![1] = [NotCalled EXCEPT !.op = "has", !.pc = "reading"]]

StartupFrame ==
  UNCHANGED <<account, scen, setBy, call, vectorStore, appData>>

\* what a call leaves in the store and in the module's variables
Leaves(op, o) ==
  /\ db' = o.S.db /\ ls' = o.S.ls
  /\ masterCryptoKey' = o.S.key
  /\ masterPasswordForMigration' = o.S.mpass
  /\ last' = [op |-> op, res |-> o.res, path |-> o.path, fault |-> o.fault]

\* checkPassword: await hasMasterPassword() settles; setIsPasswordSet(isSet)
\* when it resolves
CheckPassword ==
  \E f \in {"none", "mig", "read"} :
    \E o \in {hasMasterPassword(Cur, f)} :
      /\ inflight[1].pc = "reading"
      /\ Leaves("has", o)
      /\ inflight' = [inflight EXCEPT ![1] = [@ EXCEPT !.pc = "done", !.res = o.res]]
      /\ authState' = IF o.res \in {RetBool(TRUE), RetBool(FALSE)}
                      THEN [authState EXCEPT !.isPasswordSet = o.res.b]
                      ELSE authState
      /\ UNCHANGED <<authed, salts>>
      /\ StartupFrame

\* handleSubmit of the form AuthScreen shows while isAuthenticated is false
HandleSubmit ==
  \E password \in FormPasswords, confirmPassword \in FormPasswords :
    /\ ~authState.isAuthenticated
    /\ IF authState.isPasswordSet
       THEN \E o \in {verifyMasterPassword(Cur, password, "none")} :
              /\ Leaves("verify", o)
              /\ authState' = IF o.res = RetBool(TRUE)
                              THEN [authState EXCEPT !.isAuthenticated = TRUE]
                              ELSE authState
              /\ authed' = (authed \/ o.res = RetBool(TRUE))
              /\ salts' = salts
       ELSE IF password # confirmPassword \/ Len(password) < 8
       THEN UNCHANGED <<db, ls, masterCryptoKey, masterPasswordForMigration, last,
                        authState, authed, salts>>
       ELSE \E f \in {"none", "salt", "verifier"} :
            \E o \in {setMasterPassword(Cur, password, FreshSalt, 1, f)} :
              /\ salts < MaxSalts
              /\ salts' = salts + 1
              /\ Leaves("set", o)
              /\ authState' = IF o.res = RetVoid
                              THEN [isAuthenticated |-> TRUE, isPasswordSet |-> TRUE]
                              ELSE authState
              /\ authed' = (authed \/ o.res = RetVoid)
    /\ inflight' = inflight
    /\ StartupFrame

\* The page is loaded again: the module and App start over.
Remount ==
  /\ masterCryptoKey' = NoKey
  /\ masterPasswordForMigration' = NoPass
  /\ last' = [op |-> "reload", res |-> RetVoid, path |-> "ret", fault |-> "none"]
  /\ authed' = FALSE
  /\ authState' = NoAuth
  /\ inflight' = Mounted
  /\ UNCHANGED <<db, ls, salts>>
  /\ StartupFrame

\* The page has just been loaded on a new account, on an account of an
\* earlier release, or on an account made by setMasterPassword("pw1pw1pw1")
\* whose dataset has been saved; the salt of that account is none of the
\* salts drawn afterwards.
StartupInit ==
  /\ call = NoCall /\ inflight = Mounted
  /\ vectorStore = NoChunks /\ appData = NoAppData /\ authState = NoAuth
  /\ masterCryptoKey = NoKey /\ masterPasswordForMigration = NoPass
  /\ last = [op |-> "start", res |-> RetVoid, path |-> "ret", fault |-> "none"]
  /\ scen = Off /\ setBy = NoPass /\ authed = FALSE /\ salts = 0
  /\ \/ /\ account = [kind |-> "new", pass |-> NoPass, doc |-> Undef, intact |-> FALSE]
        /\ db = EmptyStore /\ ls = EmptyStore
     \/ /\ account = [kind |-> "legacy", pass |-> Pw1, doc |-> DocTable[2].json,
                      intact |-> TRUE]
        /\ db = EmptyStore
        /\ ls = LegacyStore(Pw1, DocTable[2].json, legacyEncrypt(Sentinel, Pw1))
     \/ \E made \in {setMasterPassword(
                       [db |-> EmptyStore, ls |-> EmptyStore, key |-> NoKey,
                        mpass |-> NoPass], Pw1 \o Pw1 \o Pw1, MaxSalts + 1, 1, "none")} :
        \E saved \in {saveData(made.S, DocTable[1].json, 1, "none")} :
          /\ account = [kind |-> "modern", pass |-> Pw1 \o Pw1 \o Pw1,
                        doc |-> DocTable[1].json, intact |-> TRUE]
          /\ db = saved.S.db /\ ls = saved.S.ls

StartupNext == CheckPassword \/ HandleSubmit \/ Remount

StartupSpec == StartupInit /\ [][StartupNext]_vars

\* C32: setMasterPassword is called only while no verifier is persisted, in
\* IndexedDB or in localStorage, so the salt and the verifier of an existing
\* account are never replaced.
C32_SetOnlyOnCreation ==
  [][ Called("set") => (db.verifier = Absent /\ ls.verifier = Absent) ]_vars

\* C33: when saveData(d1) was invoked before saveData(d2) and both have
\* returned, the persisted blob decrypts to the text of d2.
C33_InvocationOrder ==
  \A i, j \in CallIds :
    ( /\ Settled
      /\ inflight[i].op = "save" /\ inflight[j].op = "save"
      /\ inflight[i].res = RetVoid /\ inflight[j].res = RetVoid
      /\ inflight[i].pc = "done" /\ inflight[j].pc = "done"
      /\ inflight[i].inv < inflight[j].inv )
    => decryptData(db.data, masterCryptoKey)
         = Returned(JSONstringify(inflight[j].doc))

\* ---- the persisted salt, verifier and blob, taken together ----
\* cell decrypts with the legacy cipher under pass to a text that holds(text)
LegacyUnder(cell, pass, holds(_)) ==
  LET text == legacyDecrypt(cell, pass) IN text.ok /\ holds(text.val)

\* cell decrypts under key to a text that holds(text)
ModernUnder(cell, key, holds(_)) ==
  LET text == decryptData(cell, key) IN text.ok /\ holds(text.val)

IsSentinel(text) == text = Sentinel
IsJSON(text) == JSONparse(text).ok

\* The store S = [db, ls] is that of an account with passphrase pass: with a
\* salt, the verifier and the blob (when there is one) decrypt under the key
\* derived from pass and the salt; without a salt, they decrypt with the
\* legacy cipher under pass.  A store with no verifier is that of no account.
ConsistentIn(S, pass) ==
  LET verifier == IF S.db.verifier # Absent THEN S.db.verifier ELSE S.ls.verifier
      blob == IF S.db.data # Absent THEN S.db.data ELSE S.ls.data
      salt == IF S.db.salt # Absent THEN S.db.salt ELSE S.ls.salt
  IN  IF salt # Absent
      THEN LET key == deriveKey(pass, salt.n) IN
           /\ verifier # Absent /\ ModernUnder(verifier, key, IsSentinel)
           /\ blob # Absent => ModernUnder(blob, key, IsJSON)
      ELSE /\ verifier # Absent => LegacyUnder(verifier, pass, IsSentinel)
           /\ blob # Absent => LegacyUnder(blob, pass, IsJSON)

NoAccount(S) == S.db.verifier = Absent /\ S.ls.verifier = Absent

\* the calls of Next that meet no storage fault
CompletedNext ==
  \/ HasPassword /\ last'.fault = "none"
  \/ SetPassword /\ last'.fault = "none"
  \/ VerifyPassword /\ last'.fault = "none"
  \/ SaveData /\ last'.fault = "none"
  \/ LoadData /\ last'.fault = "none"
  \/ Reload

CompletedSpec == Init /\ [][CompletedNext]_vars

\* the step is a call
CompletedCall ==
  /\ last' # last
  /\ last'.op \in {"set", "verify", "load", "save"}

\* C34: a setMasterPassword(P) that creates the account leaves a store
\* consistent with P, and every completed verifyMasterPassword (right or
\* wrong passphrase), loadData and saveData on a store consistent with P
\* leaves it consistent with P.
C34_MutuallyConsistent ==
  [][ LET before == [db |-> db, ls |-> ls]
          after == [db |-> db', ls |-> ls']
      IN  CompletedCall =>
            IF last'.op = "set"
            THEN (NoAccount(before) /\ last'.res = RetVoid)
                   => ConsistentIn(after, masterPasswordForMigration')
            ELSE \A pass \in Passphrases :
                   (~NoAccount(before) /\ ConsistentIn(before, pass))
                     => ConsistentIn(after, pass) ]_vars

\* ---- the moves from localStorage to IndexedDB, await by await ----
\* A call of migrateKey(key) has op = key; it is at "migrating" while its
\* setToDB is pending and at "caught" when that rejected.
MigratedKeys == {"verifier", "salt"}

MigrationFrame ==
  UNCHANGED <<masterCryptoKey, masterPasswordForMigration, salts, Others>>

\* migrateKey up to its await: localStorage.getItem(key), setToDB called
MigrateKeyStart(i) ==
  \E key \in MigratedKeys :
    LET lsValue == ls[key] IN
    /\ inflight[i].pc = "idle"
    /\ inflight' = [inflight EXCEPT ![i] =
         IF lsValue # Absent
         THEN [@ EXCEPT !.op = key, !.pc = "migrating", !.enc = lsValue,
                        !.inv = Invoked + 1]
         ELSE [@ EXCEPT !.op = key, !.pc = "done", !.inv = Invoked + 1]]
    /\ UNCHANGED <<db, ls>>
    /\ MigrationFrame

\* Mutant: the localStorage copy is removed although setToDB rejected.
MigrateKeyRejected_Removes(i) ==
  LET c == inflight[i] IN
  /\ c.pc = "migrating"
  /\ ls' = [ls EXCEPT ![c.op] = Absent]
  /\ inflight' = [inflight EXCEPT ![i] = [c EXCEPT !.pc = "caught"]]
  /\ db' = db
  /\ MigrationFrame

\* await setToDB(key, lsValue) rejected: the catch block logs
MigrateKeyRejected(i) ==
  LET c == inflight[i] IN
  /\ c.pc = "migrating"
  /\ inflight' = [inflight EXCEPT ![i] = [c EXCEPT !.pc = "caught"]]
  /\ UNCHANGED <<db, ls>>
  /\ MigrationFrame

\* await setToDB(key, lsValue) resolved, then localStorage.removeItem(key)
MigrateKeyWritten(i) ==
  LET c == inflight[i] IN
  /\ c.pc = "migrating"
  /\ db' = [db EXCEPT ![c.op] = c.enc]
  /\ ls' = [ls EXCEPT ![c.op] = Absent]
  /\ inflight' = [inflight EXCEPT ![i] = [c EXCEPT !.pc = "done"]]
  /\ MigrationFrame

\* loadData: await setToDB(STORAGE_KEY_DATA, lsData) rejected; the catch
\* block returns emptyData()
LoadMoveRejected(i) ==
  LET c == inflight[i] IN
  /\ c.pc = "moving"
  /\ inflight' = [inflight EXCEPT ![i] = [GaveUp(c) EXCEPT !.pc = "caught"]]
  /\ UNCHANGED <<db, ls>>
  /\ MigrationFrame

\* The store of an earlier release, all of it in localStorage (under the
\* XOR cipher without a salt, or under AES-GCM with its salt), IndexedDB
\* empty or holding the verifier already; nobody has logged in.
MigrationInit ==
  /\ call = NoCall /\ inflight = NoCalls
  /\ vectorStore = NoChunks /\ appData = NoAppData /\ authState = NoAuth
  /\ masterCryptoKey = NoKey /\ masterPasswordForMigration = NoPass
  /\ last = [op |-> "start", res |-> RetVoid, path |-> "ret", fault |-> "none"]
  /\ scen = Off /\ setBy = NoPass /\ authed = FALSE /\ salts = 0
  /\ account = [kind |-> "legacy", pass |-> Pw1, doc |-> DocTable[2].json,
                intact |-> TRUE]
  /\ ls \in { LegacyStore(Pw1, DocTable[2].json, legacyEncrypt(Sentinel, Pw1)),
              [data |-> encryptData(JSONstringify(DocTable[2].json),
                                    deriveKey(Pw1, MaxSalts + 1), 1),
               verifier |-> encryptData(Sentinel, deriveKey(Pw1, MaxSalts + 1), 1),
               salt |-> SaltVal(MaxSalts + 1)] }
  /\ db \in {EmptyStore, [EmptyStore EXCEPT !.verifier = ls.verifier]}

MigrationNext ==
  \E i \in CallIds :
    \/ MigrateKeyStart(i)
    \/ MigrateKeyWritten(i)
    \/ MigrateKeyRejected(i)
    \/ StartLoad(i)
    \/ LoadRead(i)
    \/ LoadMoved(i)
    \/ LoadMoveRejected(i)

MigrationSpec == MigrationInit /\ [][MigrationNext]_vars

StorageKeys == {"data", "verifier", "salt"}

\* C35: at every step of the moves of the blob, the verifier and the salt
\* from localStorage to IndexedDB, a value held in one of the two is still
\* held in one of the two, and the localStorage copy is removed only in the
\* step after which IndexedDB holds that value, also when setToDB rejects.
C35_CopyBeforeDelete ==
  [][ \A key \in StorageKeys :
        /\ (ls[key] # Absent \/ db[key] # Absent)
             => (ls'[key] # Absent \/ db'[key] # Absent)
        /\ (ls[key] # Absent /\ ls'[key] = Absent) => db'[key] = ls[key] ]_vars

\* the move of the verifier was rejected and its localStorage copy is still
\* there, and loadData has moved the blob
C35_Witness ==
  \E i, j \in CallIds :
    /\ inflight[i].op = "verifier" /\ inflight[i].pc = "caught"
    /\ ls.verifier # Absent /\ db.verifier = Absent
    /\ inflight[j].op = "load" /\ inflight[j].pc = "done"
    /\ ls.data = Absent /\ db.data # Absent

\* ------------------------------------------------------------------
\* loadData with a cached key.
\* The only change the call makes to the two namespaces: the blob found in
\* localStorage alone is written to IndexedDB and removed from localStorage.
CopiedOnce ==
  /\ db.data = Absent /\ ls.data # Absent
  /\ db' = [db EXCEPT !.data = ls.data]
  /\ ls' = [ls EXCEPT !.data = Absent]

\* C36: a loadData call made while a key is cached changes nothing in
\* either namespace apart from the one-time copy of the blob from
\* localStorage to IndexedDB; the salt, the verifier and the value of the
\* blob are the same after the call, and so is the cached key, whether the
\* decryption succeeded or failed.
C36_LoadReadOnly ==
  [][ (Called("load") /\ masterCryptoKey # NoKey)
        => /\ (db' = db /\ ls' = ls) \/ CopiedOnce
           /\ db'.salt = db.salt /\ db'.verifier = db.verifier
           /\ ls'.salt = ls.salt /\ ls'.verifier = ls.verifier
           /\ StoredBlob' = StoredBlob
           /\ masterCryptoKey' = masterCryptoKey ]_vars

\* A load under a cached key has failed to decrypt a blob that now sits in
\* IndexedDB only, and the key is still cached.
C36_Witness ==
  /\ last.op = "load" /\ last.path = "modern_failed"
  /\ masterCryptoKey # NoKey
  /\ db.data # Absent /\ ls.data = Absent
  /\ db.salt # Absent /\ db.verifier # Absent

\* ------------------------------------------------------------------
\* setMasterPassword that raises.
\* C37: when a setMasterPassword call raises, no key is cached after it.
C37_SetAllOrNothing ==
  [][ (Called("set") /\ last'.res = Raise) => masterCryptoKey' = NoKey ]_vars

====
